---------------------------- MODULE Spec2Model ----------------------------
(***************************************************************************)
(* Model of the catflap prey detector's detection-and-interdiction         *)
(* pipeline:                                                               *)
(*   - PreyDetectorTracker.update, run by the capture/detection thread     *)
(*     (detection/prey_detector_tracker.py),                               *)
(*   - async_consumer_with_task_group_and_result_processor and its         *)
(*     limited_coroutine tasks, run by the main asyncio loop               *)
(*     (classification/llm/async_utils.py),                                *)
(*   - detect_prey (classification/prey_detector_api/detector.py),         *)
(*   - process_detection_results, the per-batch decision                   *)
(*     (detection/prey_detector_tracker.py),                               *)
(*   - handle_prey_detection / handle_no_prey_detection, the remote door   *)
(*     commands (hardware/catflap_controller.py).                          *)
(*                                                                         *)
(* The capture thread and the main loop are two OS threads that share the  *)
(* module globals of prey_detector_tracker.py without a lock, so each      *)
(* statement that reads or writes one of those globals is a step of its    *)
(* own; statements that touch only thread-local state are merged into the  *)
(* neighbouring step.  Coroutines of the main loop interleave only at      *)
(* their awaits.                                                           *)
(***************************************************************************)
EXTENDS Integers, Sequences, FiniteSets, TLC

\* ------------------------------------------------------------- bounds
\* Number of update() calls the capture thread makes in a run.
MaxFrames == 3
\* Number of items the consumer dequeues in a run of the full-mailbox scenario.
MaxTasks == 1

\* ------------------------------------------------- program constants
\* culsans.Queue(maxsize=50)
C_queue == 50
\* SSIM scores and the threshold are scaled by 100 (0.9 -> 90).
ssim_threshold == 90
MIN_RESULTS_PER_BATCH == 1
REQUIRED_NEGATIVE_ONLY_BATCHES == 2
REQUIRED_DISTINCT_POSITIONS == 2

detection_time_window == 15
detection_iou_threshold == 0
\* tracker_config.detection_iou_threshold as configured, and 0.4
IouThresholds == {detection_iou_threshold, 40}

None == "None"
Positions == {"left", "middle", "right"}
\* The camera frames tried, and the configured values of max_concurrent tried.
Frames == {1, 2}
Concurrencies == {1, 2}
Responses == {"ok", "non200", "timeout", "error"}

\* config: allowed_trigger_positions (may be all three)
allowed_trigger_positions == {"left", "middle", "right"}

\* ------------------------------------------------------------ images
\* Python's None where image bytes are expected.
NoImage == [frame |-> 0, crop |-> None, overlay |-> {}]

\* crop_image + cv2.imencode('.jpg'): the bytes depend on the frame and on
\* the position the crop is aligned to.
EncodeCropped(frame, position) ==
    [frame |-> frame, crop |-> position, overlay |-> {}]

\* ", ".join(sorted(positions)) or "unknown": the text is determined by the
\* set; the empty set renders as "unknown".
PositionsStr(positions) == IF positions = {} THEN {"unknown"} ELSE positions

\* cv2.imdecode / putText / imencode: the positions text drawn onto the image.
Overlay(image_bytes, positions_str) ==
    IF image_bytes = NoImage THEN NoImage
    ELSE [image_bytes EXCEPT !.overlay = positions_str]

\* skimage structural_similarity, scaled by 100: identical frames score 100,
\* neighbouring frames score exactly the threshold, others score low.
ssim(a, b) ==
    IF a = b THEN 100
    ELSE IF a - b = 1 \/ b - a = 1 THEN 90
    ELSE 50

\* ------------------------------------------------- detection results
DetectionResult_negative ==
    [is_positive |-> FALSE, message |-> None, image_bytes |-> NoImage]
DetectionResult_positive(message, image_bytes) ==
    [is_positive |-> TRUE, message |-> message, image_bytes |-> image_bytes]
\* An error result that counts as a positive one.
DetectionResult_error_positive(message, image_bytes) ==
    [is_positive |-> TRUE, message |-> message, image_bytes |-> image_bytes]
DetectionResult_error(message, image_bytes) ==
    [is_positive |-> FALSE, message |-> message, image_bytes |-> image_bytes]

VARIABLES
    \* --- shared between the threads
    queue,                               \* async_consumer_queue
    CONSECUTIVE_NEGATIVE_ONLY_BATCHES,
    EPISODE_TRIGGER_POSITIONS,
    LAST_ENQUEUED_IMAGE_BYTES,
    FIRST_MIDDLE_IMAGE_BYTES,
    \* --- capture thread: PausablePreyDetectorTracker.update
    update_pc,                           \* position inside update()
    update_args,                         \* its trigger position and image_bytes
    last_trigger_position,
    previous_image,
    frames,                              \* update() calls made so far
    \* --- main loop: the consumer and its tasks
    consumer_pc,                         \* "idle": detector_task is None or done
    tasks,                               \* results: the tasks, in creation order
    semaphore,                           \* free permits
    dequeued,                            \* non-sentinel items taken this lifetime
    \* --- main loop: process_detection_results
    proc_pc,
    all_results,                         \* its argument
    loaded_count,                        \* the value read by "+= 1"
    unlock_message,
    image_choice,                        \* image_bytes chosen for the unlock photo
    notifications,                       \* notify_event_async calls of this batch
    unlock_calls,                        \* handle_no_prey_detection calls of this batch
    decision,                            \* the branch this batch took
    negative_batches,                    \* counted negative batches since the last
                                         \* reset of the counter by a positive batch,
                                         \* a flap event or an unlock call
    \* --- environment and configuration
    door,                                \* mode of the remote cat door
    max_concurrent,
    prey_detection_enabled,
    allowed_positions,                   \* self.allowed_trigger_positions
    call,                                \* inputs of the latest update() call, or of
                                         \* a process_detection_results call made
                                         \* on its own
    \* --- main loop: catflap_controller, the local lock state
    is_locked,
    lock_start_time,
    unlock_task,                         \* handle: index into auto_unlock_tasks
    auto_unlock_tasks,                   \* every _auto_unlock task created
    controller_calls,                    \* lock/unlock calls made so far
    controller_result,                   \* what the latest call returned
    \* --- main loop: remote door follow-up
    auto_lock_task,                      \* _auto_lock_task: index into auto_lock_tasks
    auto_lock_tasks,                     \* every _auto_lock_after_delay task created
    door_requests,                       \* requests sent by the latest door command
                                         \* or by the latest step of a follow-up task
    door_calls,                          \* remote door commands made so far
    status_response,                     \* what GET /status answered the latest
                                         \* no-prey unlock
    \* --- capture thread: DetectionTracker
    tracked_objects,                     \* the dict, in insertion order
    next_id,                             \* self._next_id
    timestamp,                           \* timestamp of the latest update()
    iou_threshold,                       \* tracker_config.detection_iou_threshold
    expired,                             \* what the latest update() returned
    matched,                             \* per object id, the detections matched
                                         \* to it and the image of each
    \* --- observation
    completed                            \* the tasks in the order they completed,
                                         \* recorded where that order is examined

sharedVars == <<CONSECUTIVE_NEGATIVE_ONLY_BATCHES, EPISODE_TRIGGER_POSITIONS,
                LAST_ENQUEUED_IMAGE_BYTES, FIRST_MIDDLE_IMAGE_BYTES>>
captureVars == <<update_pc, update_args, last_trigger_position, previous_image, frames>>
consumerVars == <<consumer_pc, tasks, semaphore, dequeued>>
procVars == <<proc_pc, all_results, loaded_count, unlock_message, image_choice,
              notifications, unlock_calls, decision>>
controllerVars == <<is_locked, lock_start_time, unlock_task, auto_unlock_tasks,
                    controller_calls, controller_result>>
remoteVars == <<auto_lock_task, auto_lock_tasks, door_requests, door_calls,
                status_response>>
trackerVars == <<tracked_objects, next_id, timestamp, iou_threshold, expired, matched>>
settingVars == <<max_concurrent, prey_detection_enabled, allowed_positions,
                 controllerVars, remoteVars, trackerVars>>
configVars == <<settingVars, call, completed>>

vars == <<queue, sharedVars, captureVars, consumerVars, procVars,
          negative_batches, door, configVars>>

NoArgs == [position |-> None, image_bytes |-> NoImage]

\* No update() call was made yet.
NoCall == [position |-> None, frame |-> 0, reed |-> [kind |-> None, age |-> 0]]

\* What a lock_catflap / unlock_catflap call returned: "True", "False", or
\* "raised" when it ended in an exception.
Returned(name, value) == [call |-> name, returned |-> value]

\* An answer to GET /status: how the request ended and, for a 200, the mode
\* named in the body.
StatusResponse(kind, text) == [kind |-> kind, text |-> text]

\* No task: the handle is None.
NoTask == 0

\* The allowed sets tried: every position, two of them, and the empty set.
AllowedConfigs == {allowed_trigger_positions, {"left", "middle"}, {}}

Init ==
    /\ queue = <<>>
    /\ CONSECUTIVE_NEGATIVE_ONLY_BATCHES = 0
    /\ EPISODE_TRIGGER_POSITIONS = {}
    /\ LAST_ENQUEUED_IMAGE_BYTES = NoImage
    /\ FIRST_MIDDLE_IMAGE_BYTES = NoImage
    /\ update_pc = "idle"
    /\ update_args = NoArgs
    /\ last_trigger_position = None
    /\ previous_image = 0
    /\ frames = 0
    /\ consumer_pc = "idle"
    /\ tasks = <<>>
    /\ semaphore = 0
    /\ dequeued = 0
    /\ proc_pc = "idle"
    /\ all_results = <<>>
    /\ loaded_count = 0
    /\ unlock_message = ""
    /\ image_choice = NoImage
    /\ notifications = <<>>
    /\ unlock_calls = 0
    /\ decision = "none"
    /\ negative_batches = 0
    /\ door = "GREEN"
    /\ max_concurrent \in Concurrencies
    /\ prey_detection_enabled \in BOOLEAN
    /\ allowed_positions \in AllowedConfigs
    /\ call = NoCall
    /\ is_locked = FALSE
    /\ lock_start_time = None
    /\ unlock_task = NoTask
    /\ auto_unlock_tasks = <<>>
    /\ controller_calls = 0
    /\ controller_result = Returned(None, None)
    /\ auto_lock_task = NoTask
    /\ auto_lock_tasks = <<>>
    /\ door_requests = <<>>
    /\ door_calls = 0
    /\ status_response = StatusResponse(None, None)
    /\ tracked_objects = <<>>
    /\ next_id = 0
    /\ timestamp = 0
    /\ iou_threshold \in IouThresholds
    /\ expired = <<>>
    /\ matched = <<>>
    /\ completed = <<>>

\* The tracker as the pipeline configures it by default.
InitDefault ==
    /\ Init
    /\ allowed_positions = allowed_trigger_positions
    /\ iou_threshold = detection_iou_threshold


\* ====================================================================
\* Capture thread: PausablePreyDetectorTracker.update
\* ====================================================================

\* Responses of GET {base}/logs/reed/last: the request fails, the JSON has
\* no timestamp, or it carries a timestamp that is `age` seconds old.
ReedResponse(kind, age) == [kind |-> kind, age |-> age]
ReedResponses ==
    {ReedResponse("error", 0), ReedResponse("no_timestamp", 0),
     ReedResponse("timestamp", 30), ReedResponse("timestamp", 179),
     ReedResponse("timestamp", 180), ReedResponse("timestamp", 181)}

\* The responses tried by the main specification.
SomeReedResponses ==
    {ReedResponse("error", 0), ReedResponse("timestamp", 179),
     ReedResponse("timestamp", 180)}

should_skip_detection_recent_exit(reed) ==
    IF reed.kind = "error" THEN FALSE
    ELSE IF reed.kind = "no_timestamp" THEN FALSE
    ELSE reed.age < 180

\* The arguments of an update() call and the answer the reed log gives it.
Call(position, frame, reed) == [position |-> position, frame |-> frame, reed |-> reed]

\* A filter that lets every position through.
position_filtered_never(position) == FALSE

\* Lines 275-284: the position is rejected when the allowed set is non-empty
\* and does not hold it.
position_filtered(position) ==
    /\ position # None
    /\ allowed_positions # {}
    /\ position \notin allowed_positions

\* An SSIM filter that skips nothing.
skip_image_never(frame) == FALSE

\* skip_image: the frame is a near-duplicate of the previously admitted one.
skip_image(frame) ==
    /\ previous_image # 0
    /\ ssim(previous_image, frame) > ssim_threshold

\* A scheduling that does not look at detector_task: every passing trigger
\* frame starts a consumer.
ScheduleConsumer_unconditional ==
    /\ consumer_pc' = "recv"
    /\ tasks' = <<>>
    /\ semaphore' = max_concurrent
    /\ dequeued' = 0

\* The consumer coroutine scheduled on MAIN_LOOP when detector_task is None
\* or done; its semaphore is created with max_concurrent permits.
ScheduleConsumer ==
    IF consumer_pc = "idle"
    THEN /\ consumer_pc' = "recv"
         /\ tasks' = <<>>
         /\ semaphore' = max_concurrent
         /\ dequeued' = 0
    ELSE UNCHANGED consumerVars

\* update(), from its entry to the first access of a shared global: the
\* pauser check, the orientation bookkeeping, the enabled flag, the
\* recent-exit probe, the allowed-position filter, the consumer start and the
\* SSIM filter.
UpdateCall(position, frame, reed, budget) ==
    /\ update_pc = "idle"
    /\ frames < budget
    /\ frames' = frames + 1
    /\ IF is_locked
       THEN UNCHANGED <<update_pc, update_args, last_trigger_position,
                        previous_image, consumerVars>>
       ELSE
       /\ last_trigger_position' =
              IF position # None THEN position ELSE last_trigger_position
       /\ IF ~prey_detection_enabled
          THEN UNCHANGED <<update_pc, update_args, previous_image, consumerVars>>
          ELSE IF position # None /\ should_skip_detection_recent_exit(reed)
          THEN /\ update_pc' = "gate_counter"
               /\ UNCHANGED <<update_args, previous_image, consumerVars>>
          ELSE IF position_filtered(position)
          THEN UNCHANGED <<update_pc, update_args, previous_image, consumerVars>>
          ELSE IF position # None
          THEN /\ ScheduleConsumer
               /\ IF skip_image(frame)
                  THEN UNCHANGED <<update_pc, update_args, previous_image>>
                  ELSE /\ previous_image' = frame
                       /\ update_args' =
                              [position |-> position,
                               image_bytes |-> EncodeCropped(frame, position)]
                       /\ update_pc' = "admit_positions"
          ELSE UNCHANGED <<update_pc, update_args, previous_image, consumerVars>>
    /\ UNCHANGED <<queue, sharedVars, procVars, negative_batches, door, settingVars>>

\* Recent-exit gate, line 267: CONSECUTIVE_NEGATIVE_ONLY_BATCHES = 0
GateResetCounter ==
    /\ update_pc = "gate_counter"
    /\ CONSECUTIVE_NEGATIVE_ONLY_BATCHES' = 0
    /\ negative_batches' = 0
    /\ update_pc' = "gate_positions"
    /\ UNCHANGED <<queue, EPISODE_TRIGGER_POSITIONS, LAST_ENQUEUED_IMAGE_BYTES,
                   FIRST_MIDDLE_IMAGE_BYTES, update_args, last_trigger_position,
                   previous_image, frames, consumerVars, procVars, door, configVars>>

\* Recent-exit gate, line 268: EPISODE_TRIGGER_POSITIONS.clear()
GateClearPositions ==
    /\ update_pc = "gate_positions"
    /\ EPISODE_TRIGGER_POSITIONS' = {}
    /\ update_pc' = "gate_first_middle"
    /\ UNCHANGED <<queue, CONSECUTIVE_NEGATIVE_ONLY_BATCHES, LAST_ENQUEUED_IMAGE_BYTES,
                   FIRST_MIDDLE_IMAGE_BYTES, update_args, last_trigger_position,
                   previous_image, frames, consumerVars, procVars,
                   negative_batches, door, configVars>>

\* Recent-exit gate, lines 269-272: FIRST_MIDDLE_IMAGE_BYTES = None,
\* last_trigger_position = None, return.
GateClearFirstMiddle ==
    /\ update_pc = "gate_first_middle"
    /\ FIRST_MIDDLE_IMAGE_BYTES' = NoImage
    /\ last_trigger_position' = None
    /\ update_pc' = "idle"
    /\ UNCHANGED <<queue, CONSECUTIVE_NEGATIVE_ONLY_BATCHES, EPISODE_TRIGGER_POSITIONS,
                   LAST_ENQUEUED_IMAGE_BYTES, update_args, previous_image, frames,
                   consumerVars, procVars, negative_batches, door, configVars>>

\* An admission that assigns the set instead of adding to it.
AdmitAddPosition_replaces ==
    /\ update_pc = "admit_positions"
    /\ EPISODE_TRIGGER_POSITIONS' = {update_args.position}
    /\ update_pc' = "admit_last_enqueued"
    /\ UNCHANGED <<queue, CONSECUTIVE_NEGATIVE_ONLY_BATCHES, LAST_ENQUEUED_IMAGE_BYTES,
                   FIRST_MIDDLE_IMAGE_BYTES, update_args, last_trigger_position,
                   previous_image, frames, consumerVars, procVars,
                   negative_batches, door, configVars>>

\* Admission, line 323: EPISODE_TRIGGER_POSITIONS.add(trigger_object_position)
AdmitAddPosition ==
    /\ update_pc = "admit_positions"
    /\ EPISODE_TRIGGER_POSITIONS' = EPISODE_TRIGGER_POSITIONS \cup {update_args.position}
    /\ update_pc' = "admit_last_enqueued"
    /\ UNCHANGED <<queue, CONSECUTIVE_NEGATIVE_ONLY_BATCHES, LAST_ENQUEUED_IMAGE_BYTES,
                   FIRST_MIDDLE_IMAGE_BYTES, update_args, last_trigger_position,
                   previous_image, frames, consumerVars, procVars,
                   negative_batches, door, configVars>>

\* Admission, line 328: LAST_ENQUEUED_IMAGE_BYTES = image_bytes
AdmitSetLastEnqueued ==
    /\ update_pc = "admit_last_enqueued"
    /\ LAST_ENQUEUED_IMAGE_BYTES' = update_args.image_bytes
    /\ update_pc' = "admit_first_middle"
    /\ UNCHANGED <<queue, CONSECUTIVE_NEGATIVE_ONLY_BATCHES, EPISODE_TRIGGER_POSITIONS,
                   FIRST_MIDDLE_IMAGE_BYTES, update_args, last_trigger_position,
                   previous_image, frames, consumerVars, procVars,
                   negative_batches, door, configVars>>

\* Admission, lines 332-333: remember the first "middle" image of the episode.
AdmitSetFirstMiddle ==
    /\ update_pc = "admit_first_middle"
    /\ FIRST_MIDDLE_IMAGE_BYTES' =
           IF update_args.position = "middle" /\ FIRST_MIDDLE_IMAGE_BYTES = NoImage
           THEN update_args.image_bytes
           ELSE FIRST_MIDDLE_IMAGE_BYTES
    /\ update_pc' = "put"
    /\ UNCHANGED <<queue, CONSECUTIVE_NEGATIVE_ONLY_BATCHES, EPISODE_TRIGGER_POSITIONS,
                   LAST_ENQUEUED_IMAGE_BYTES, update_args, last_trigger_position,
                   previous_image, frames, consumerVars, procVars,
                   negative_batches, door, configVars>>

\* sync_q.put(item) of a queue.Queue-like bounded queue: block=True and no
\* timeout, so the call returns only once there is room for the item.
sync_q_put_returns == Len(queue) < C_queue

\* Admission, line 376: async_consumer_queue.sync_q.put(image_bytes), return.
AdmitPut ==
    /\ update_pc = "put"
    /\ sync_q_put_returns
    /\ queue' = Append(queue, update_args.image_bytes)
    /\ update_pc' = "idle"
    /\ update_args' = NoArgs
    /\ UNCHANGED <<sharedVars, last_trigger_position, previous_image, frames,
                   consumerVars, procVars, negative_batches, door, configVars>>

\* ====================================================================
\* Remote door commands (hardware/catflap_controller.py)
\* ====================================================================

\* handle_prey_detection: GET /mode/red.  The door turns RED when the request
\* succeeds; every outcome returns a status text.
handle_prey_detection(door_now, response) ==
    IF response = "ok"
    THEN [message |-> "door LOCKED indefinitely", door |-> "RED"]
    ELSE IF response = "non200"
    THEN [message |-> "door API returned status", door |-> door_now]
    ELSE IF response = "timeout"
    THEN [message |-> "Timeout contacting door API", door |-> door_now]
    ELSE [message |-> "Could not lock door", door |-> door_now]

\* An unlock command that returns a status text only when the door was set
\* to GREEN, and the empty text otherwise.
handle_no_prey_detection_silent_failure(door_now, status, green_response) ==
    IF status \in {"ok", "non200"} /\ green_response = "ok"
       /\ ~(status = "ok" /\ door_now = "RED")
    THEN [message |-> "door unlocked - will auto-lock", door |-> "GREEN",
          requests |-> <<"/status", "/mode/green">>, schedule |-> TRUE]
    ELSE [message |-> "", door |-> door_now,
          requests |-> <<"/status">>, schedule |-> FALSE]

\* An unlock command that does not look at the status answer.
handle_no_prey_detection_unchecked(door_now, status, green_response) ==
    IF green_response = "ok"
    THEN [message |-> "door unlocked - will auto-lock", door |-> "GREEN",
          requests |-> <<"/status", "/mode/green">>, schedule |-> TRUE]
    ELSE [message |-> "door API returned status", door |-> door_now,
          requests |-> <<"/status", "/mode/green">>, schedule |-> FALSE]

\* handle_no_prey_detection: GET /status, then GET /mode/green unless the
\* status answer is a 200 that contains RED.  A status answer other than 200
\* is not inspected and the code goes on to /mode/green.  Every outcome
\* returns a status text.  `requests` lists the requests sent, `schedule`
\* tells whether line 237 creates the follow-up task.
handle_no_prey_detection(door_now, status, green_response) ==
    IF status = "timeout"
    THEN [message |-> "Timeout contacting door API", door |-> door_now,
          requests |-> <<"/status">>, schedule |-> FALSE]
    ELSE IF status = "error"
    THEN [message |-> "Could not unlock door", door |-> door_now,
          requests |-> <<"/status">>, schedule |-> FALSE]
    ELSE IF status = "ok" /\ door_now = "RED"
    THEN [message |-> "Door remains LOCKED", door |-> door_now,
          requests |-> <<"/status">>, schedule |-> FALSE]
    ELSE IF green_response = "ok"
    THEN [message |-> "door unlocked - will auto-lock", door |-> "GREEN",
          requests |-> <<"/status", "/mode/green">>, schedule |-> TRUE]
    ELSE IF green_response = "non200"
    THEN [message |-> "door API returned status", door |-> door_now,
          requests |-> <<"/status", "/mode/green">>, schedule |-> FALSE]
    ELSE IF green_response = "timeout"
    THEN [message |-> "Timeout contacting door API", door |-> door_now,
          requests |-> <<"/status", "/mode/green">>, schedule |-> FALSE]
    ELSE [message |-> "Could not unlock door", door |-> door_now,
          requests |-> <<"/status", "/mode/green">>, schedule |-> FALSE]

\* ====================================================================
\* The prey classifier (classification/prey_detector_api/detector.py)
\* ====================================================================

\* Answers of the classifier endpoint after make_request's retries.
ApiAnswers == {"clean", "prey", "fail"}

\* A classifier call that reports prey without locking the door.
detect_prey_without_lock(image_bytes, api, lock_response, persisted, door_now) ==
    IF image_bytes = NoImage
    THEN [result |-> DetectionResult_negative, door |-> door_now, requests |-> <<>>]
    ELSE IF api = "fail"
    THEN [result |-> DetectionResult_error("Error processing image", image_bytes),
          door |-> door_now, requests |-> <<>>]
    ELSE IF api = "prey"
    THEN [result |-> DetectionResult_positive("CAT WITH PREY DETECTED / ", image_bytes),
          door |-> door_now, requests |-> <<>>]
    ELSE [result |-> DetectionResult_negative, door |-> door_now, requests |-> <<>>]

\* detect_prey(image_bytes): None gives a negative result at once.  A request
\* that fails gives an error result carrying the image.  On {"detected": true}
\* the door is locked first, then the image is persisted (which can fail, and
\* then the result is an error result), then a positive result is returned.
\* `requests` lists the door requests sent during the call.
detect_prey(image_bytes, api, lock_response, persisted, door_now) ==
    IF image_bytes = NoImage
    THEN [result |-> DetectionResult_negative, door |-> door_now, requests |-> <<>>]
    ELSE IF api = "fail"
    THEN [result |-> DetectionResult_error("Error processing image", image_bytes),
          door |-> door_now, requests |-> <<>>]
    ELSE IF api = "prey"
    THEN LET locked == handle_prey_detection(door_now, lock_response)
         IN  IF persisted
             THEN [result |-> DetectionResult_positive(
                                  "CAT WITH PREY DETECTED / " \o locked.message,
                                  image_bytes),
                   door |-> locked.door, requests |-> <<"/mode/red">>]
             ELSE [result |-> DetectionResult_error("Error processing image",
                                                    image_bytes),
                   door |-> locked.door, requests |-> <<"/mode/red">>]
    ELSE [result |-> DetectionResult_negative, door |-> door_now, requests |-> <<>>]

\* ====================================================================
\* Main loop: async_consumer_with_task_group_and_result_processor
\* ====================================================================

\* tg.create_task(limited_coroutine(item)); results.append(task)
NewTask(item) ==
    [item |-> item, st |-> "new", locked |-> FALSE,
     result |-> DetectionResult_negative]

\* Classifier calls with a non-null item that have started and not returned.
InFlight == {i \in DOMAIN tasks : tasks[i].st = "running"}

\* The while loop's queue get returns an item: the None sentinel ends the
\* loop, any other item becomes a task.
ConsumerGet(limit) ==
    /\ consumer_pc = "recv"
    /\ queue # <<>>
    /\ dequeued < limit
    /\ queue' = Tail(queue)
    /\ IF Head(queue) = NoImage
       THEN /\ consumer_pc' = "join"
            /\ UNCHANGED <<tasks, dequeued>>
       ELSE /\ tasks' = Append(tasks, NewTask(Head(queue)))
            /\ dequeued' = dequeued + 1
            /\ UNCHANGED consumer_pc
    /\ UNCHANGED <<semaphore, sharedVars, captureVars, procVars,
                   negative_batches, door, configVars>>

\* The queue get times out after timeout_seconds without an item.
ConsumerTimeout ==
    /\ consumer_pc = "recv"
    /\ queue = <<>>
    /\ consumer_pc' = "join"
    /\ UNCHANGED <<queue, tasks, semaphore, dequeued, sharedVars, captureVars,
                   procVars, negative_batches, door, configVars>>

\* A producer puts the None sentinel (the shutdown signal).
PutSentinel ==
    /\ consumer_pc = "recv"
    /\ Len(queue) < C_queue
    /\ \A k \in DOMAIN queue : queue[k] # NoImage
    /\ queue' = Append(queue, NoImage)
    /\ UNCHANGED <<sharedVars, captureVars, consumerVars, procVars,
                   negative_batches, door, configVars>>

\* limited_coroutine, first step: semaphore.acquire() under wait_for.  With a
\* free permit the task holds it and calls coroutine(item); otherwise it waits.
TaskStart(i) ==
    /\ i \in DOMAIN tasks
    /\ tasks[i].st = "new"
    /\ IF semaphore > 0
       THEN /\ semaphore' = semaphore - 1
            /\ tasks' = [tasks EXCEPT ![i].st = "running", ![i].locked = TRUE]
       ELSE /\ tasks' = [tasks EXCEPT ![i].st = "waiting"]
            /\ UNCHANGED semaphore
    /\ UNCHANGED <<queue, consumer_pc, dequeued, sharedVars, captureVars, procVars,
                   negative_batches, door, configVars>>

\* A permit is released within the 1 ms wait: the waiting task gets it.
TaskAcquire(i) ==
    /\ i \in DOMAIN tasks
    /\ tasks[i].st = "waiting"
    /\ semaphore > 0
    /\ semaphore' = semaphore - 1
    /\ tasks' = [tasks EXCEPT ![i].st = "running", ![i].locked = TRUE]
    /\ UNCHANGED <<queue, consumer_pc, dequeued, sharedVars, captureVars, procVars,
                   negative_batches, door, configVars>>

\* A finally clause that releases without looking at "locked".
ReleasedPermits_unconditional(task) == 1

\* The permit a finished limited_coroutine gives back: "if locked: release()".
ReleasedPermits(task) == IF task.locked THEN 1 ELSE 0

\* The 1 ms wait times out: coroutine(None) is called instead and its result
\* is the task's result.
TaskDecline(i) ==
    /\ i \in DOMAIN tasks
    /\ tasks[i].st = "waiting"
    /\ LET r == detect_prey(NoImage, "clean", "ok", TRUE, door)
       IN  /\ tasks' = [tasks EXCEPT ![i].st = "done", ![i].result = r.result]
           /\ door' = r.door
    /\ semaphore' = semaphore + ReleasedPermits(tasks[i])
    /\ UNCHANGED <<queue, consumer_pc, dequeued, sharedVars, captureVars, procVars,
                   negative_batches, settingVars, call>>

\* What the outside world answers during one classifier call: the endpoint's
\* answer, the door's answer to /mode/red, and whether the image file is written.
ClassifierAnswer(api, lock_response, persisted) ==
    [api |-> api, lock_response |-> lock_response, persisted |-> persisted]
ClassifierAnswers ==
    {ClassifierAnswer("clean", "ok", TRUE), ClassifierAnswer("fail", "ok", TRUE)}
    \cup {ClassifierAnswer("prey", l, p) : l \in Responses, p \in BOOLEAN}
\* The answers tried by the main specification.
SomeClassifierAnswers ==
    {ClassifierAnswer("clean", "ok", TRUE), ClassifierAnswer("fail", "ok", TRUE),
     ClassifierAnswer("prey", "ok", TRUE)}

\* coroutine(item) returns; the finally clause releases the permit.
TaskFinish(i, answer) ==
    /\ i \in DOMAIN tasks
    /\ tasks[i].st = "running"
    /\ LET r == detect_prey(tasks[i].item, answer.api, answer.lock_response,
                            answer.persisted, door)
       IN  /\ tasks' = [tasks EXCEPT ![i].st = "done", ![i].result = r.result]
           /\ door' = r.door
    /\ semaphore' = semaphore + ReleasedPermits(tasks[i])
    /\ UNCHANGED <<queue, consumer_pc, dequeued, sharedVars, captureVars, procVars,
                   negative_batches, settingVars, call>>

\* A task ends, by a classifier answer or by a declined permit, where the
\* order of completion is not looked at ...
TaskFinished(i, answer) == TaskFinish(i, answer) /\ UNCHANGED completed
TaskDeclined(i) == TaskDecline(i) /\ UNCHANGED completed

\* ... and where it is: the task is noted as the latest to complete.
TaskFinishedNoted(i, answer) ==
    TaskFinish(i, answer) /\ completed' = Append(completed, i)
TaskDeclinedNoted(i) ==
    TaskDecline(i) /\ completed' = Append(completed, i)

\* A collection that keeps only the results of the tasks that held a permit.
CollectResults_locked_only(ts) ==
    LET kept == {i \in DOMAIN ts : ts[i].locked}
        nth[k \in 0..Len(ts)] ==
            IF k = 0 THEN <<>>
            ELSE IF k \in kept THEN Append(nth[k - 1], ts[k].result)
            ELSE nth[k - 1]
    IN  nth[Len(ts)]

\* The tasks ts of this lifetime, in the order in which they completed.
CompletionOrder(ts) ==
    SubSeq(completed, Len(completed) - Len(ts) + 1, Len(completed))

\* A collection that lists the results in the order of completion.
CollectResults_as_completed(ts) ==
    [k \in DOMAIN ts |-> ts[CompletionOrder(ts)[k]].result]

\* all_results = [result.result() for result in results]
CollectResults(ts) == [i \in DOMAIN ts |-> ts[i].result]

\* A consumer that calls result_processor without waiting for its tasks.
ConsumerJoin_early ==
    /\ consumer_pc = "join"
    /\ all_results' = CollectResults(tasks)
    /\ consumer_pc' = "proc"
    /\ proc_pc' = "start"
    /\ notifications' = <<>>
    /\ unlock_calls' = 0
    /\ decision' = "none"
    /\ unlock_message' = ""
    /\ UNCHANGED <<queue, tasks, semaphore, dequeued, loaded_count, image_choice,
                   sharedVars, captureVars, negative_batches, door, configVars>>

\* The TaskGroup block ends once every task is done; the results are
\* collected and result_processor(all_results) is called.
ConsumerJoin ==
    /\ consumer_pc = "join"
    /\ \A i \in DOMAIN tasks : tasks[i].st = "done"
    /\ all_results' = CollectResults(tasks)
    /\ consumer_pc' = "proc"
    /\ proc_pc' = "start"
    /\ notifications' = <<>>
    /\ unlock_calls' = 0
    /\ decision' = "none"
    /\ unlock_message' = ""
    /\ UNCHANGED <<queue, tasks, semaphore, dequeued, loaded_count, image_choice,
                   sharedVars, captureVars, negative_batches, door, configVars>>

\* ====================================================================
\* Main loop: process_detection_results
\* ====================================================================

NoResult == 0

\* A search that looks at the first result only.
get_positive_results_first_only(results) ==
    IF results # <<>> /\ results[1].is_positive THEN 1 ELSE NoResult

\* A search that returns the last positive result.
get_positive_results_last(results) ==
    IF \E i \in DOMAIN results : results[i].is_positive
    THEN CHOOSE i \in DOMAIN results :
             /\ results[i].is_positive
             /\ \A j \in (i + 1)..Len(results) : ~results[j].is_positive
    ELSE NoResult

\* _get_positive_results: index of the first positive result, or NoResult.
get_positive_results(results) ==
    IF \E i \in DOMAIN results : results[i].is_positive
    THEN CHOOSE i \in DOMAIN results :
             /\ results[i].is_positive
             /\ \A j \in 1..(i - 1) : ~results[j].is_positive
    ELSE NoResult

\* first_with_image: index of the first result that carries image bytes.
first_with_image(results) ==
    IF \E i \in DOMAIN results : results[i].image_bytes # NoImage
    THEN CHOOSE i \in DOMAIN results :
             /\ results[i].image_bytes # NoImage
             /\ \A j \in 1..(i - 1) : results[j].image_bytes = NoImage
    ELSE NoResult

Notification(kind, text, caption, image_bytes) ==
    [kind |-> kind, text |-> text, caption |-> caption, image_bytes |-> image_bytes]

\* process_detection_results returns and, with it, the consumer coroutine:
\* detector_task is done.
ProcReturn ==
    /\ proc_pc' = "idle"
    /\ consumer_pc' = "idle"
    /\ all_results' = <<>>
    /\ loaded_count' = 0
    /\ image_choice' = NoImage
    /\ tasks' = <<>>
    /\ semaphore' = 0
    /\ dequeued' = 0

\* A size check that lets every batch through.
too_small_batch_never(results) == FALSE

\* Lines 137-138: if len(results) < MIN_RESULTS_PER_BATCH
too_small_batch(results) == Len(results) < MIN_RESULTS_PER_BATCH

\* Lines 120-149: look for a positive result.  With one, line 130 resets the
\* counter.  With none and an empty batch, return.  Otherwise line 149 starts
\* "CONSECUTIVE_NEGATIVE_ONLY_BATCHES += 1" by loading the counter.
ProcStart ==
    /\ proc_pc = "start"
    /\ IF get_positive_results(all_results) # NoResult
       THEN /\ CONSECUTIVE_NEGATIVE_ONLY_BATCHES' = 0
            /\ negative_batches' = 0
            /\ decision' = "positive"
            /\ proc_pc' = "positive_clear_positions"
            /\ UNCHANGED <<all_results, loaded_count, image_choice, consumerVars>>
       ELSE IF too_small_batch(all_results)
       THEN /\ decision' = "empty"
            /\ ProcReturn
            /\ UNCHANGED <<CONSECUTIVE_NEGATIVE_ONLY_BATCHES, negative_batches>>
       ELSE /\ loaded_count' = CONSECUTIVE_NEGATIVE_ONLY_BATCHES
            /\ proc_pc' = "negative_store"
            /\ UNCHANGED <<CONSECUTIVE_NEGATIVE_ONLY_BATCHES, negative_batches,
                           decision, all_results, image_choice, consumerVars>>
    /\ UNCHANGED <<queue, EPISODE_TRIGGER_POSITIONS, LAST_ENQUEUED_IMAGE_BYTES,
                   FIRST_MIDDLE_IMAGE_BYTES, captureVars, unlock_message,
                   notifications, unlock_calls, door, configVars>>

\* Line 131: EPISODE_TRIGGER_POSITIONS.clear()
ProcPositiveClearPositions ==
    /\ proc_pc = "positive_clear_positions"
    /\ EPISODE_TRIGGER_POSITIONS' = {}
    /\ proc_pc' = "positive_clear_first_middle"
    /\ UNCHANGED <<queue, CONSECUTIVE_NEGATIVE_ONLY_BATCHES, LAST_ENQUEUED_IMAGE_BYTES,
                   FIRST_MIDDLE_IMAGE_BYTES, captureVars, consumerVars, all_results,
                   loaded_count, unlock_message, image_choice, notifications,
                   unlock_calls, decision, negative_batches, door, configVars>>

\* Line 132: FIRST_MIDDLE_IMAGE_BYTES = None
ProcPositiveClearFirstMiddle ==
    /\ proc_pc = "positive_clear_first_middle"
    /\ FIRST_MIDDLE_IMAGE_BYTES' = NoImage
    /\ proc_pc' = "positive_notify"
    /\ UNCHANGED <<queue, CONSECUTIVE_NEGATIVE_ONLY_BATCHES, EPISODE_TRIGGER_POSITIONS,
                   LAST_ENQUEUED_IMAGE_BYTES, captureVars, consumerVars, all_results,
                   loaded_count, unlock_message, image_choice, notifications,
                   unlock_calls, decision, negative_batches, door, configVars>>

\* Lines 133-134: await _send_notification(first_positive_result); return
ProcPositiveNotify ==
    /\ proc_pc = "positive_notify"
    /\ LET r == all_results[get_positive_results(all_results)]
       IN  notifications' =
               Append(notifications,
                      Notification("positive", r.message, {}, r.image_bytes))
    /\ ProcReturn
    /\ UNCHANGED <<queue, sharedVars, captureVars, unlock_message, unlock_calls,
                   decision, negative_batches, door, configVars>>

\* Line 149, the store of "CONSECUTIVE_NEGATIVE_ONLY_BATCHES += 1"
ProcNegativeStore ==
    /\ proc_pc = "negative_store"
    /\ CONSECUTIVE_NEGATIVE_ONLY_BATCHES' = loaded_count + 1
    /\ negative_batches' = negative_batches + 1
    /\ proc_pc' = "negative_check_count"
    /\ UNCHANGED <<queue, EPISODE_TRIGGER_POSITIONS, LAST_ENQUEUED_IMAGE_BYTES,
                   FIRST_MIDDLE_IMAGE_BYTES, captureVars, consumerVars, all_results,
                   loaded_count, unlock_message, image_choice, notifications,
                   unlock_calls, decision, door, configVars>>

\* Line 156: if CONSECUTIVE_NEGATIVE_ONLY_BATCHES >= REQUIRED_NEGATIVE_ONLY_BATCHES
enough_negative_batches ==
    CONSECUTIVE_NEGATIVE_ONLY_BATCHES >= REQUIRED_NEGATIVE_ONLY_BATCHES

ProcNegativeCheckCount ==
    /\ proc_pc = "negative_check_count"
    /\ IF enough_negative_batches
       THEN /\ proc_pc' = "negative_check_positions"
            /\ UNCHANGED <<decision, all_results, loaded_count, image_choice,
                           consumerVars>>
       ELSE /\ decision' = "wait"
            /\ ProcReturn
    /\ UNCHANGED <<queue, sharedVars, captureVars, unlock_message, notifications,
                   unlock_calls, negative_batches, door, configVars>>

\* A position check that is content with one position.
too_few_positions_below_one == Cardinality(EPISODE_TRIGGER_POSITIONS) < 1

\* Line 159: if len(EPISODE_TRIGGER_POSITIONS) < 2
too_few_positions ==
    Cardinality(EPISODE_TRIGGER_POSITIONS) < REQUIRED_DISTINCT_POSITIONS

ProcNegativeCheckPositions ==
    /\ proc_pc = "negative_check_positions"
    /\ IF too_few_positions
       THEN /\ decision' = "too_few_positions"
            /\ ProcReturn
       ELSE /\ proc_pc' = "unlock_reset"
            /\ UNCHANGED <<decision, all_results, loaded_count, image_choice,
                           consumerVars>>
    /\ UNCHANGED <<queue, sharedVars, captureVars, unlock_message, notifications,
                   unlock_calls, negative_batches, door, configVars>>

\* An unlock path that leaves the counter as it is.
ProcUnlockReset_keeps_counter ==
    /\ proc_pc = "unlock_reset"
    /\ proc_pc' = "unlock_call"
    /\ UNCHANGED <<queue, sharedVars, captureVars, consumerVars, all_results,
                   loaded_count, unlock_message, image_choice, notifications,
                   unlock_calls, decision, negative_batches, door, configVars>>

\* Line 170: CONSECUTIVE_NEGATIVE_ONLY_BATCHES = 0
ProcUnlockReset ==
    /\ proc_pc = "unlock_reset"
    /\ CONSECUTIVE_NEGATIVE_ONLY_BATCHES' = 0
    /\ proc_pc' = "unlock_call"
    /\ UNCHANGED <<queue, EPISODE_TRIGGER_POSITIONS, LAST_ENQUEUED_IMAGE_BYTES,
                   FIRST_MIDDLE_IMAGE_BYTES, captureVars, consumerVars, all_results,
                   loaded_count, unlock_message, image_choice, notifications,
                   unlock_calls, decision, negative_batches, door, configVars>>

\* An unlock path that announces nothing.
send_unlock_notification_never(message) == FALSE

\* Line 179: if unlock_message
send_unlock_notification(message) == message # ""

\* Line 178: unlock_message = await handle_no_prey_detection()
ProcUnlockCall(status, green_response) ==
    /\ proc_pc = "unlock_call"
    /\ LET r == handle_no_prey_detection(door, status, green_response)
       IN  /\ unlock_message' = r.message
           /\ door' = r.door
           /\ proc_pc' = IF send_unlock_notification(r.message)
                         THEN "unlock_image" ELSE "unlock_clear"
    /\ unlock_calls' = unlock_calls + 1
    /\ negative_batches' = 0
    /\ decision' = "unlock"
    /\ UNCHANGED <<queue, sharedVars, captureVars, consumerVars, all_results,
                   loaded_count, image_choice, notifications, configVars>>

\* Lines 185-188: the first image of the batch, else LAST_ENQUEUED_IMAGE_BYTES
ProcUnlockImage ==
    /\ proc_pc = "unlock_image"
    /\ image_choice' =
           IF first_with_image(all_results) # NoResult
           THEN all_results[first_with_image(all_results)].image_bytes
           ELSE LAST_ENQUEUED_IMAGE_BYTES
    /\ proc_pc' = "unlock_notify"
    /\ UNCHANGED <<queue, sharedVars, captureVars, consumerVars, all_results,
                   loaded_count, unlock_message, notifications, unlock_calls,
                   decision, negative_batches, door, configVars>>

\* Lines 189-214: caption and overlay from the positions, then the notification
ProcUnlockNotify ==
    /\ proc_pc = "unlock_notify"
    /\ LET positions_str == PositionsStr(EPISODE_TRIGGER_POSITIONS)
       IN  notifications' =
               Append(notifications,
                      Notification("unlock", unlock_message, positions_str,
                                   Overlay(image_choice, positions_str)))
    /\ proc_pc' = "unlock_clear"
    /\ UNCHANGED <<queue, sharedVars, captureVars, consumerVars, all_results,
                   loaded_count, unlock_message, image_choice, unlock_calls,
                   decision, negative_batches, door, configVars>>

\* Line 217: EPISODE_TRIGGER_POSITIONS.clear(), return
ProcUnlockClear ==
    /\ proc_pc = "unlock_clear"
    /\ EPISODE_TRIGGER_POSITIONS' = {}
    /\ ProcReturn
    /\ UNCHANGED <<queue, CONSECUTIVE_NEGATIVE_ONLY_BATCHES, LAST_ENQUEUED_IMAGE_BYTES,
                   FIRST_MIDDLE_IMAGE_BYTES, captureVars, unlock_message,
                   notifications, unlock_calls, decision, negative_batches, door,
                   configVars>>

\* process_detection_results(results) run without interruption, from the
\* counter and the positions it finds: what it leaves behind and the branch
\* it takes.
Outcome(counter, positions, branch, unlocks) ==
    [counter |-> counter, positions |-> positions, decision |-> branch,
     unlock_calls |-> unlocks]
process_detection_results(results, counter, positions) ==
    IF get_positive_results(results) # NoResult
    THEN Outcome(0, {}, "positive", 0)
    ELSE IF too_small_batch(results)
    THEN Outcome(counter, positions, "empty", 0)
    ELSE IF counter + 1 < REQUIRED_NEGATIVE_ONLY_BATCHES
    THEN Outcome(counter + 1, positions, "wait", 0)
    ELSE IF Cardinality(positions) < REQUIRED_DISTINCT_POSITIONS
    THEN Outcome(counter + 1, positions, "too_few_positions", 0)
    ELSE Outcome(0, {}, "unlock", 1)

\* The results a classifier call can return, for two images.
BatchResults ==
    {DetectionResult_negative,
     DetectionResult_positive("CAT WITH PREY DETECTED / door LOCKED indefinitely",
                              EncodeCropped(1, "left")),
     DetectionResult_positive("CAT WITH PREY DETECTED / Timeout contacting door API",
                              EncodeCropped(2, "middle")),
     DetectionResult_error("Error processing image", EncodeCropped(2, "middle"))}

\* Longest batch tried.
MaxBatch == 3

Batches == UNION {[1..n -> BatchResults] : n \in 0..MaxBatch}

Batch(results, counter, positions, first_middle) ==
    [results |-> results, counter |-> counter, positions |-> positions,
     first_middle |-> first_middle]

\* await result_processor(all_results), with the episode state as the frames
\* admitted and the batches processed before have left it; what came before
\* is in that state, so one call is followed per behaviour.
ProcCall(results, counter, positions, first_middle) ==
    /\ call = NoCall
    /\ consumer_pc = "idle"
    /\ proc_pc = "idle"
    /\ update_pc = "idle"
    /\ all_results' = results
    /\ CONSECUTIVE_NEGATIVE_ONLY_BATCHES' = counter
    /\ negative_batches' = counter
    /\ EPISODE_TRIGGER_POSITIONS' = positions
    /\ FIRST_MIDDLE_IMAGE_BYTES' = first_middle
    /\ consumer_pc' = "proc"
    /\ proc_pc' = "start"
    /\ notifications' = <<>>
    /\ unlock_calls' = 0
    /\ decision' = "none"
    /\ unlock_message' = ""
    /\ call' = Batch(results, counter, positions, first_middle)
    /\ UNCHANGED <<queue, LAST_ENQUEUED_IMAGE_BYTES, captureVars, tasks, semaphore,
                   dequeued, loaded_count, image_choice, door, settingVars,
                   completed>>

\* ====================================================================
\* Main loop: CatflapController, the local lock state
\* (hardware/catflap_controller.py)
\* ====================================================================
\* lock_catflap and unlock_catflap hold self._lock, an asyncio.Lock, for their
\* whole body, and the body has no await: each call is one step of the main
\* loop.  An _auto_unlock task is "sleeping" in asyncio.sleep, "elapsed" once
\* the sleep is over and the task waits for its turn, "cancelling" once
\* cancel() was called on it and the CancelledError is still to be delivered,
\* and "finished" afterwards.

\* Number of lock_catflap / unlock_catflap calls in a run.
MaxCalls == 3

\* Everything but the controller.
pipelineVars == <<queue, sharedVars, captureVars, consumerVars, procVars,
                  negative_batches, door, max_concurrent, prey_detection_enabled,
                  allowed_positions, call, completed, remoteVars, trackerVars>>

\* Where _perform_lock_operation ends: it returns, or it raises before or
\* after asyncio.create_task.
LockOutcomes == {"ok", "raise_before_task", "raise_after_task"}

\* A lock that never finds the flap locked already.
already_locked_never == FALSE

\* lock_catflap, line 34: if self.is_locked
already_locked == is_locked

\* An unlock that keeps the handle of the cancelled task.
unlocked_handle_kept == unlock_task

\* _perform_unlock_operation, line 114: self.unlock_task = None
unlocked_handle == NoTask

\* A cancellation that is left out.
cancel_unlock_task_left_out(ts, handle) == ts

\* A cancellation that reaches a timer only while it still sleeps.
cancel_unlock_task_while_sleeping(ts, handle) ==
    IF handle # NoTask /\ ts[handle] = "sleeping"
    THEN [ts EXCEPT ![handle] = "cancelling"]
    ELSE ts

\* "if self.unlock_task and not self.unlock_task.done(): self.unlock_task.cancel()"
cancel_unlock_task(ts, handle) ==
    IF handle # NoTask /\ ts[handle] # "finished"
    THEN [ts EXCEPT ![handle] = "cancelling"]
    ELSE ts

\* lock_catflap(reason): False when already locked; otherwise
\* _perform_lock_operation, and _reset_lock_state when that raises.
lock_catflap(outcome) ==
    /\ controller_calls < MaxCalls
    /\ controller_calls' = controller_calls + 1
    /\ IF already_locked
       THEN /\ controller_result' = Returned("lock_catflap", "False")
            /\ UNCHANGED <<is_locked, lock_start_time, unlock_task, auto_unlock_tasks>>
       ELSE LET cancelled == cancel_unlock_task(auto_unlock_tasks, unlock_task)
                created == Append(cancelled, "sleeping")
            IN  IF outcome = "ok"
                THEN /\ is_locked' = TRUE
                     /\ lock_start_time' = "now"
                     /\ auto_unlock_tasks' = created
                     /\ unlock_task' = Len(created)
                     /\ controller_result' = Returned("lock_catflap", "True")
                ELSE IF outcome = "raise_before_task"
                THEN /\ is_locked' = FALSE
                     /\ lock_start_time' = None
                     /\ auto_unlock_tasks' = cancelled
                     /\ UNCHANGED unlock_task
                     /\ controller_result' = Returned("lock_catflap", "raised")
                ELSE /\ is_locked' = FALSE
                     /\ lock_start_time' = None
                     /\ auto_unlock_tasks' = created
                     /\ unlock_task' = Len(created)
                     /\ controller_result' = Returned("lock_catflap", "raised")
    /\ UNCHANGED pipelineVars

\* unlock_catflap(reason): False when not locked; otherwise
\* _perform_unlock_operation, which raises at "now - lock_start_time" when
\* lock_start_time is None.
unlock_catflap ==
    /\ controller_calls < MaxCalls
    /\ controller_calls' = controller_calls + 1
    /\ IF ~is_locked
       THEN /\ controller_result' = Returned("unlock_catflap", "False")
            /\ UNCHANGED <<is_locked, lock_start_time, unlock_task, auto_unlock_tasks>>
       ELSE /\ auto_unlock_tasks' = cancel_unlock_task(auto_unlock_tasks, unlock_task)
            /\ IF lock_start_time = None
               THEN /\ controller_result' = Returned("unlock_catflap", "raised")
                    /\ UNCHANGED <<is_locked, lock_start_time, unlock_task>>
               ELSE /\ controller_result' = Returned("unlock_catflap", "True")
                    /\ is_locked' = FALSE
                    /\ lock_start_time' = None
                    /\ unlock_task' = unlocked_handle
    /\ UNCHANGED pipelineVars

\* _auto_unlock: asyncio.sleep(lock_duration_seconds) is over.
AutoUnlockElapse(t) ==
    /\ t \in DOMAIN auto_unlock_tasks
    /\ auto_unlock_tasks[t] = "sleeping"
    /\ auto_unlock_tasks' = [auto_unlock_tasks EXCEPT ![t] = "elapsed"]
    /\ UNCHANGED <<is_locked, lock_start_time, unlock_task, controller_calls,
                   controller_result, pipelineVars>>

\* A timer that finishes without the unlock.
AutoUnlockRun_without_unlock(t) ==
    /\ t \in DOMAIN auto_unlock_tasks
    /\ auto_unlock_tasks[t] = "elapsed"
    /\ auto_unlock_tasks' = [auto_unlock_tasks EXCEPT ![t] = "finished"]
    /\ UNCHANGED <<is_locked, lock_start_time, unlock_task, controller_calls,
                   controller_result, pipelineVars>>

\* _auto_unlock resumes after the sleep: await self.unlock_catflap("Automatic
\* timer"), which cancels the task the handle names (this very task when it
\* belongs to the current lock), and the task finishes.
AutoUnlockRun(t) ==
    /\ t \in DOMAIN auto_unlock_tasks
    /\ auto_unlock_tasks[t] = "elapsed"
    /\ IF ~is_locked
       THEN /\ auto_unlock_tasks' = [auto_unlock_tasks EXCEPT ![t] = "finished"]
            /\ UNCHANGED <<is_locked, lock_start_time, unlock_task>>
       ELSE /\ auto_unlock_tasks' =
                   [cancel_unlock_task(auto_unlock_tasks, unlock_task)
                        EXCEPT ![t] = "finished"]
            /\ IF lock_start_time = None
               THEN UNCHANGED <<is_locked, lock_start_time, unlock_task>>
               ELSE /\ is_locked' = FALSE
                    /\ lock_start_time' = None
                    /\ unlock_task' = unlocked_handle
    /\ UNCHANGED <<controller_calls, controller_result, pipelineVars>>

\* _auto_unlock gets the CancelledError at its sleep, logs and finishes.
AutoUnlockCancelled(t) ==
    /\ t \in DOMAIN auto_unlock_tasks
    /\ auto_unlock_tasks[t] = "cancelling"
    /\ auto_unlock_tasks' = [auto_unlock_tasks EXCEPT ![t] = "finished"]
    /\ UNCHANGED <<is_locked, lock_start_time, unlock_task, controller_calls,
                   controller_result, pipelineVars>>

\* ====================================================================
\* Main loop: the remote door and its follow-up task
\* ====================================================================

\* Everything the remote door commands and the follow-up task leave alone.
localVars == <<queue, sharedVars, captureVars, consumerVars, proc_pc, all_results,
               loaded_count, image_choice, notifications, unlock_calls, decision,
               negative_batches, max_concurrent, prey_detection_enabled,
               allowed_positions, call, completed, controllerVars, trackerVars>>

\* A follow-up task: where it is in _auto_lock_after_delay and the `attempt`
\* of its reed loop.
FollowUp(pc, attempt) == [pc |-> pc, attempt |-> attempt]

\* Answers of GET /reed/status with status 200.
ReedStates == {"CLOSED", "OPEN"}

\* Lines 232-234: cancel the follow-up task the handle names unless it is done.
cancel_auto_lock_task(ts, handle) ==
    IF handle = NoTask \/ ts[handle].pc = "finished"
    THEN ts
    ELSE [ts EXCEPT ![handle].pc = "cancelling"]

\* A remote lock that also sets the local lock state.
RemotePrey_locking(response) ==
    /\ door_calls < MaxCalls
    /\ door_calls' = door_calls + 1
    /\ door' = handle_prey_detection(door, response).door
    /\ door_requests' = <<"/mode/red">>
    /\ is_locked' = (is_locked \/ response = "ok")
    /\ lock_start_time' = IF response = "ok" THEN "now" ELSE lock_start_time
    /\ UNCHANGED <<auto_lock_task, auto_lock_tasks, status_response, unlock_message,
                   queue, sharedVars, captureVars, consumerVars, proc_pc, all_results,
                   loaded_count, image_choice, notifications, unlock_calls, decision,
                   negative_batches, max_concurrent, prey_detection_enabled,
                   allowed_positions, call, completed, unlock_task, auto_unlock_tasks,
                   controller_calls, controller_result, trackerVars>>

\* A positive classification: detect_prey awaits handle_prey_detection().
RemotePrey(response) ==
    /\ door_calls < MaxCalls
    /\ door_calls' = door_calls + 1
    /\ door' = handle_prey_detection(door, response).door
    /\ door_requests' = <<"/mode/red">>
    /\ UNCHANGED <<auto_lock_task, auto_lock_tasks, status_response, unlock_message,
                   localVars>>

\* The no-prey unlock: unlock_message = await handle_no_prey_detection().
RemoteNoPrey(status, green_response) ==
    /\ door_calls < MaxCalls
    /\ door_calls' = door_calls + 1
    /\ status_response' = StatusResponse(status, IF status = "ok" THEN door ELSE None)
    /\ LET r == handle_no_prey_detection(door, status, green_response)
       IN  /\ door' = r.door
           /\ unlock_message' = r.message
           /\ door_requests' = r.requests
           /\ IF r.schedule
              THEN /\ auto_lock_tasks' =
                          Append(cancel_auto_lock_task(auto_lock_tasks, auto_lock_task),
                                 FollowUp("sleep_120", 0))
                   /\ auto_lock_task' = Len(auto_lock_tasks) + 1
              ELSE UNCHANGED <<auto_lock_task, auto_lock_tasks>>
    /\ UNCHANGED localVars

\* What a step of the follow-up task t leaves alone.
FollowUpStep(t, pc) ==
    /\ t \in DOMAIN auto_lock_tasks
    /\ auto_lock_tasks[t].pc = pc
    /\ UNCHANGED <<auto_lock_task, door_calls, status_response, unlock_message,
                   localVars>>

\* Line 255: asyncio.sleep(120) is over.
FollowUpWake(t) ==
    /\ FollowUpStep(t, "sleep_120")
    /\ auto_lock_tasks' = [auto_lock_tasks EXCEPT ![t].pc = "status"]
    /\ door_requests' = <<>>
    /\ UNCHANGED door

\* Lines 261-272 and 324-330: GET /status; the task ends when the door is
\* RED, when the answer is not a 200 and when the request fails.
FollowUpStatus(t, response) ==
    /\ FollowUpStep(t, "status")
    /\ door_requests' = <<"/status">>
    /\ auto_lock_tasks' =
           [auto_lock_tasks EXCEPT ![t].pc =
                IF response = "ok" /\ door # "RED" THEN "reed" ELSE "finished"]
    /\ UNCHANGED door

\* Lines 277-299: one poll of GET /reed/status.
FollowUpReed(t, response, reed_status) ==
    /\ FollowUpStep(t, "reed")
    /\ door_requests' = <<"/reed/status">>
    /\ auto_lock_tasks' =
           [auto_lock_tasks EXCEPT ![t].pc =
                IF response \in {"timeout", "error"} THEN "finished"
                ELSE IF response = "non200" THEN "green"
                ELSE IF reed_status = "CLOSED" THEN "yellow"
                ELSE IF auto_lock_tasks[t].attempt < 2 THEN "sleep_30"
                ELSE "green"]
    /\ UNCHANGED door

\* Line 294: asyncio.sleep(30) is over, the next attempt starts.
FollowUpRetry(t) ==
    /\ FollowUpStep(t, "sleep_30")
    /\ auto_lock_tasks' =
           [auto_lock_tasks EXCEPT ![t] = FollowUp("reed", auto_lock_tasks[t].attempt + 1)]
    /\ door_requests' = <<>>
    /\ UNCHANGED door

\* Lines 302-312: the reed is not known to be closed: GET /mode/green.
FollowUpGreen(t, response) ==
    /\ FollowUpStep(t, "green")
    /\ door_requests' = <<"/mode/green">>
    /\ door' = IF response = "ok" THEN "GREEN" ELSE door
    /\ auto_lock_tasks' =
           [auto_lock_tasks EXCEPT ![t].pc =
                IF response = "ok" THEN "sleep_5"
                ELSE IF response = "non200" THEN "yellow"
                ELSE "finished"]

\* Line 310: asyncio.sleep(5) is over.
FollowUpSleep5(t) ==
    /\ FollowUpStep(t, "sleep_5")
    /\ auto_lock_tasks' = [auto_lock_tasks EXCEPT ![t].pc = "yellow"]
    /\ door_requests' = <<>>
    /\ UNCHANGED door

\* Lines 315-323: GET /mode/yellow, and the task ends.
FollowUpYellow(t, response) ==
    /\ FollowUpStep(t, "yellow")
    /\ door_requests' = <<"/mode/yellow">>
    /\ door' = IF response = "ok" THEN "YELLOW" ELSE door
    /\ auto_lock_tasks' = [auto_lock_tasks EXCEPT ![t].pc = "finished"]

\* Lines 327-328: the task meets the CancelledError at its await and ends.
FollowUpCancelled(t) ==
    /\ FollowUpStep(t, "cancelling")
    /\ auto_lock_tasks' = [auto_lock_tasks EXCEPT ![t].pc = "finished"]
    /\ door_requests' = <<>>
    /\ UNCHANGED door

\* ====================================================================
\* Capture thread: DetectionTracker (detection/tracker.py)
\* ====================================================================

\* A Detect_Object: class label, confidence (prob) and bounding box.
Detect_Object(label, prob, box) == [label |-> label, prob |-> prob, box |-> box]

\* The rectangles tried have one size and one height and differ in rect.x,
\* which `box` holds.
rect_w == 10

\* iou_of, scaled by 100: overlap / (area + area - overlap).
calculate_iou(det1, det2) ==
    LET left == IF det1.box > det2.box THEN det1.box ELSE det2.box
        right == IF det1.box < det2.box THEN det1.box + rect_w ELSE det2.box + rect_w
        overlap == IF right > left THEN right - left ELSE 0
    IN  (100 * overlap) \div (2 * rect_w - overlap)

\* draw_detections_on_image: a copy of the frame with the detections drawn.
draw_detections_on_image(image, detections) ==
    [frame |-> image, drawn |-> {detections[i] : i \in DOMAIN detections}]

\* f"{class_name}_{obj_id}"
object_key(label, obj_id) == <<label, obj_id>>

\* TrackedObject.__init__
TrackedObject(key, detection, time, image) ==
    [key |-> key, label |-> detection.label, first_seen |-> time, last_seen |-> time,
     best_confidence |-> detection.prob, best_image |-> image,
     last_detection |-> detection, detection_count |-> 1]

\* An update that keeps the earlier image when the confidence is only equalled.
TrackedObject_update_strict(tracked, detection, time, image) ==
    [tracked EXCEPT !.last_seen = time,
                    !.last_detection = detection,
                    !.detection_count = @ + 1,
                    !.best_confidence = IF detection.prob > @ THEN detection.prob ELSE @,
                    !.best_image = IF detection.prob > tracked.best_confidence
                                   THEN image ELSE @]

\* TrackedObject.update
TrackedObject_update(tracked, detection, time, image) ==
    [tracked EXCEPT !.last_seen = time,
                    !.last_detection = detection,
                    !.detection_count = @ + 1,
                    !.best_confidence = IF detection.prob >= @ THEN detection.prob ELSE @,
                    !.best_image = IF detection.prob >= tracked.best_confidence
                                   THEN image ELSE @]

\* A clean-up that also drops the objects last seen exactly a window ago.
is_expired_at_window(tracked, current_time) ==
    current_time - tracked.last_seen >= detection_time_window

\* _cleanup_old_objects: the objects not seen for longer than the window.
is_expired(tracked, current_time) ==
    current_time - tracked.last_seen > detection_time_window

expired_objects(objects, current_time) ==
    LET old(tracked) == is_expired(tracked, current_time)
    IN  SelectSeq(objects, old)

remaining_objects(objects, current_time) ==
    LET recent(tracked) == ~is_expired(tracked, current_time)
    IN  SelectSeq(objects, recent)

\* A search that returns the last object that matches.
find_matching_object_last(objects, detection) ==
    IF \E i \in DOMAIN objects :
           /\ objects[i].label = detection.label
           /\ calculate_iou(objects[i].last_detection, detection) >= iou_threshold
    THEN CHOOSE i \in DOMAIN objects :
             /\ objects[i].label = detection.label
             /\ calculate_iou(objects[i].last_detection, detection) >= iou_threshold
             /\ \A j \in (i + 1)..Len(objects) :
                    ~(/\ objects[j].label = detection.label
                      /\ calculate_iou(objects[j].last_detection, detection)
                             >= iou_threshold)
    ELSE 0

\* _find_matching_object: the position of the first object, in insertion
\* order, of the same class whose last detection overlaps enough; 0 for None.
matches(tracked, detection) ==
    /\ tracked.label = detection.label
    /\ calculate_iou(tracked.last_detection, detection) >= iou_threshold

find_matching_object(objects, detection) ==
    IF \E i \in DOMAIN objects : matches(objects[i], detection)
    THEN CHOOSE i \in DOMAIN objects :
             /\ matches(objects[i], detection)
             /\ \A j \in 1..(i - 1) : ~matches(objects[j], detection)
    ELSE 0

\* The loop over the detections of one update(): each detection updates the
\* object it matches or becomes a new object under the next id.  `seen` is
\* the record of what was matched to which id.
RECURSIVE track_detections(_, _, _, _, _)
track_detections(state, detections, i, time, image) ==
    IF i > Len(detections) THEN state
    ELSE LET detection == detections[i]
             at == find_matching_object(state.objects, detection)
             entry == [prob |-> detection.prob, image |-> image]
         IN  IF at # 0
             THEN LET id == state.objects[at].key[2]
                  IN  track_detections(
                          [state EXCEPT
                              !.objects[at] =
                                  TrackedObject_update(@, detection, time, image),
                              !.seen[id + 1] = Append(@, entry)],
                          detections, i + 1, time, image)
             ELSE track_detections(
                      [objects |-> Append(state.objects,
                                          TrackedObject(
                                              object_key(detection.label, state.next),
                                              detection, time, image)),
                       next |-> state.next + 1,
                       seen |-> Append(state.seen, <<entry>>)],
                      detections, i + 1, time, image)

\* The (class_label, best_confidence, best_image) tuples update() returns.
expired_results(objects) ==
    [i \in DOMAIN objects |->
        [key |-> objects[i].key, label |-> objects[i].label,
         best_confidence |-> objects[i].best_confidence,
         best_image |-> objects[i].best_image]]

\* DetectionTracker.update(detections, image_array, timestamp): the frame is
\* the one captured `elapsed` seconds after the previous one.
TrackerUpdate(detections, elapsed) ==
    /\ frames < MaxFrames
    /\ frames' = frames + 1
    /\ timestamp' = timestamp + elapsed
    /\ LET old == expired_objects(tracked_objects, timestamp')
           kept == remaining_objects(tracked_objects, timestamp')
           image == draw_detections_on_image(frames', detections)
           after == track_detections(
                        [objects |-> kept, next |-> next_id, seen |-> matched],
                        detections, 1, timestamp', image)
       IN  /\ tracked_objects' = after.objects
           /\ next_id' = after.next
           /\ matched' = after.seen
           /\ expired' = expired_results(old)
    /\ call' = [detections |-> detections, elapsed |-> elapsed]
    /\ UNCHANGED <<queue, sharedVars, update_pc, update_args, last_trigger_position,
                   previous_image, consumerVars, procVars, negative_batches, door,
                   max_concurrent, prey_detection_enabled, allowed_positions,
                   completed, controllerVars, remoteVars, iou_threshold>>

\* ====================================================================
\* Capture thread: run_detection_pipeline (detection/detection_pipeline.py)
\* ====================================================================

\* camera_config.resolution[0], which is current_frame.shape[1]
frame_width == 640
\* detector_config.prey_detection_trigger_class_id: "cat"
trigger_class_id == 0

\* Lines 60-68: bbox_center_x = rect.x + rect.w / 2 against frame_width / 3
\* and 2 * frame_width / 3, compared here after multiplying by 6.
bucket(detection) ==
    LET twice_center == 2 * detection.box + rect_w
    IN  IF 3 * twice_center < 2 * frame_width THEN "left"
        ELSE IF 3 * twice_center > 4 * frame_width THEN "right"
        ELSE "middle"

\* A loop that stops at the first detection of the trigger class.
trigger_object_position_first(detections) ==
    LET hits == {i \in DOMAIN detections : detections[i].label = trigger_class_id}
    IN  IF hits = {} THEN None
        ELSE bucket(detections[CHOOSE i \in hits : \A j \in hits : i <= j])

\* Lines 53-68: trigger_object_position = None, then the loop over the
\* detections assigns it at every detection of the trigger class and does
\* not break: the value left is that of the last such detection.
trigger_object_position(detections) ==
    LET hits == {i \in DOMAIN detections : detections[i].label = trigger_class_id}
    IN  IF hits = {} THEN None
        ELSE bucket(detections[CHOOSE i \in hits : \A j \in hits : i >= j])

DriverCall(detections, position, frame, reed) ==
    [detections |-> detections, position |-> position, frame |-> frame,
     reed |-> reed]

\* One iteration up to the first prey_detector_tracker.update call (line 82):
\* the detector's output gives the position, which goes to update() with
\* the frame.
DriverIteration(detections, frame, reed) ==
    /\ UpdateCall(trigger_object_position(detections), frame, reed, MaxFrames)
    /\ call' = DriverCall(detections, trigger_object_position(detections), frame, reed)
    /\ UNCHANGED completed

\* Lines 84-89: with a trigger position, each follow-up frame captured goes
\* to update() with the same position.
DriverFollowup(frame, reed) ==
    /\ call # NoCall
    /\ call.position # None
    /\ UpdateCall(call.position, frame, reed, MaxFrames)
    /\ call' = [call EXCEPT !.frame = frame, !.reed = reed]
    /\ UNCHANGED completed

\* ====================================================================
\* Specifications
\* ====================================================================

CaptureGate == GateResetCounter \/ GateClearPositions \/ GateClearFirstMiddle

CaptureAdmit ==
    AdmitAddPosition \/ AdmitSetLastEnqueued \/ AdmitSetFirstMiddle \/ AdmitPut

ProcPositive ==
    ProcPositiveClearPositions \/ ProcPositiveClearFirstMiddle \/ ProcPositiveNotify

ProcNegative == ProcNegativeStore \/ ProcNegativeCheckCount \/ ProcNegativeCheckPositions

ProcUnlock ==
    \/ ProcUnlockReset
    \/ \E s \in Responses, g \in Responses : ProcUnlockCall(s, g)
    \/ ProcUnlockImage
    \/ ProcUnlockNotify
    \/ ProcUnlockClear

\* The whole pipeline: the capture thread admits frames seen at two
\* positions, the reed log answers in every way, the classifier and the door
\* answer in several ways.
Next ==
    \/ \E position \in {"left", "middle", None}, frame \in Frames,
          reed \in SomeReedResponses :
           UpdateCall(position, frame, reed, MaxFrames) /\ UNCHANGED <<call, completed>>
    \/ CaptureGate
    \/ CaptureAdmit
    \/ ConsumerGet(MaxFrames)
    \/ ConsumerTimeout
    \/ \E i \in 1..MaxFrames : TaskStart(i) \/ TaskAcquire(i) \/ TaskDeclined(i)
    \/ \E i \in 1..MaxFrames, answer \in SomeClassifierAnswers : TaskFinished(i, answer)
    \/ ConsumerJoin
    \/ ProcStart
    \/ ProcPositive
    \/ ProcNegative
    \/ ProcUnlock

\* The classifier calls are serialised here, so that a batch of several
\* items holds results of declined items; SpecConsumer tries every limit.
InitSerial == InitDefault /\ max_concurrent = 1

Spec == InitSerial /\ [][Next]_vars

\* The consumer and its tasks: frames arrive at one position and pass the
\* recent-exit gate, a producer may put the None sentinel, and the classifier
\* answers in every way.
NextConsumer ==
    \/ \E frame \in Frames :
           UpdateCall("left", frame, ReedResponse("error", 0), MaxFrames)
           /\ UNCHANGED <<call, completed>>
    \/ CaptureAdmit
    \/ PutSentinel
    \/ ConsumerGet(MaxFrames)
    \/ ConsumerTimeout
    \/ \E i \in 1..MaxFrames : TaskStart(i) \/ TaskAcquire(i) \/ TaskDeclined(i)
    \/ \E i \in 1..MaxFrames, answer \in ClassifierAnswers : TaskFinished(i, answer)
    \/ ConsumerJoin
    \/ ProcStart
    \/ ProcPositive
    \/ ProcNegative

SpecConsumer == InitDefault /\ [][NextConsumer]_vars

\* The steps of the consumer coroutine, its tasks and on_batch on MAIN_LOOP.
MainLoopStep ==
    \/ ConsumerGet(MaxFrames)
    \/ ConsumerTimeout
    \/ \E i \in 1..MaxFrames : TaskStart(i) \/ TaskAcquire(i) \/ TaskDeclined(i)
    \/ \E i \in 1..MaxFrames, answer \in ClassifierAnswers : TaskFinished(i, answer)
    \/ ConsumerJoin
    \/ ProcStart
    \/ ProcPositive
    \/ ProcNegative

\* The event loop keeps running (asyncio.run in main.py): a coroutine that
\* can take its next step takes it, a receive that finds the mailbox empty
\* times out; and an update() call that was entered runs to its end on the
\* capture thread.  No new frame has to arrive.
SpecConsumerFair ==
    /\ SpecConsumer
    /\ WF_vars(MainLoopStep)
    /\ WF_vars(CaptureAdmit)

\* The consumer with the order of completion noted: frames arrive at one
\* position, two classifier calls may run at a time, and a task may complete
\* before a task created earlier.
NextOrder ==
    \/ \E frame \in Frames :
           UpdateCall("left", frame, ReedResponse("error", 0), MaxFrames)
           /\ UNCHANGED <<call, completed>>
    \/ CaptureAdmit
    \/ ConsumerGet(MaxFrames)
    \/ ConsumerTimeout
    \/ \E i \in 1..MaxFrames : TaskStart(i) \/ TaskAcquire(i) \/ TaskDeclinedNoted(i)
    \/ \E i \in 1..MaxFrames, answer \in SomeClassifierAnswers :
           TaskFinishedNoted(i, answer)
    \/ ConsumerJoin
    \/ ProcStart
    \/ ProcPositive
    \/ ProcNegative

InitOrder == InitDefault /\ max_concurrent = 2

SpecOrder == InitOrder /\ [][NextOrder]_vars

\* The decision engine on its own: batches of every make-up up to MaxBatch
\* results, met with every counter value below the unlock threshold and at
\* it, every set of positions and a first middle image or none; the door
\* answers the unlock in every way.
NextDecision ==
    \/ /\ call = NoCall
       /\ \E results \in Batches, counter \in 0..REQUIRED_NEGATIVE_ONLY_BATCHES,
             positions \in SUBSET {"left", "middle", "right"},
             first_middle \in {NoImage, EncodeCropped(1, "middle")} :
              ProcCall(results, counter, positions, first_middle)
    \/ ProcStart
    \/ ProcPositive
    \/ ProcNegative
    \/ ProcUnlock

InitDecision == InitSerial /\ prey_detection_enabled

SpecDecision == InitDecision /\ [][NextDecision]_vars

\* The driver loop: the detector reports cats whose centres lie next to the
\* two bucket borders and a person, alone and in pairs; nothing drains the
\* mailbox.
DriverDetections ==
    {Detect_Object(0, 1, 208), Detect_Object(0, 1, 209), Detect_Object(0, 1, 421),
     Detect_Object(0, 1, 422), Detect_Object(1, 1, 421)}

DriverDetectionLists ==
    {<<>>}
    \cup {<<d>> : d \in DriverDetections}
    \cup {<<Detect_Object(0, 1, 208), Detect_Object(0, 1, 422)>>,
          <<Detect_Object(0, 1, 209), Detect_Object(1, 1, 421)>>,
          <<Detect_Object(1, 1, 421), Detect_Object(0, 1, 208)>>}

NextDriver ==
    \/ \E detections \in DriverDetectionLists, frame \in Frames,
          reed \in SomeReedResponses :
           DriverIteration(detections, frame, reed)
    \/ \E frame \in Frames, reed \in SomeReedResponses : DriverFollowup(frame, reed)
    \/ CaptureGate
    \/ CaptureAdmit

InitDriver == InitSerial /\ prey_detection_enabled

SpecDriver == InitDriver /\ [][NextDriver]_vars

\* The mailbox filling up: the capture thread keeps admitting frames while
\* the consumer takes only MaxTasks items and never leaves its receive loop.
MailboxFrames == C_queue + MaxTasks + 1

NextMailbox ==
    \/ \E frame \in Frames :
           UpdateCall("left", frame, ReedResponse("error", 0), MailboxFrames)
           /\ UNCHANGED <<call, completed>>
    \/ CaptureAdmit
    \/ ConsumerGet(MaxTasks)
    \/ \E i \in 1..MaxTasks : TaskStart(i)
    \/ \E i \in 1..MaxTasks : TaskFinished(i, ClassifierAnswer("clean", "ok", TRUE))

SpecMailbox == InitDefault /\ [][NextMailbox]_vars

\* Admission alone: update() calls at an always allowed position, at a
\* position that one configuration rejects and at no position, with frames
\* that resemble the reference frame or not, every kind of answer of the reed
\* log, every configuration of the allowed positions, and the flap being
\* locked and unlocked again in between.  Nothing takes items from the mailbox, so
\* the mailbox lists the admitted frames in order.
AdmissionFrames == {1, 2, 3}

AdmissionReedResponses ==
    {ReedResponse("error", 0), ReedResponse("no_timestamp", 0),
     ReedResponse("timestamp", 179), ReedResponse("timestamp", 180)}

NextAdmission ==
    \/ \E position \in {"left", "right", None}, frame \in AdmissionFrames,
          reed \in AdmissionReedResponses :
           /\ UpdateCall(position, frame, reed, MaxFrames)
           /\ call' = Call(position, frame, reed)
           /\ UNCHANGED completed
    \/ CaptureGate
    \/ CaptureAdmit
    \/ ~is_locked /\ lock_catflap("ok")
    \/ is_locked /\ unlock_catflap

\* Every configuration of the allowed positions; the consumer does not run.
InitAdmission ==
    /\ Init
    /\ max_concurrent = 1
    /\ iou_threshold = detection_iou_threshold

SpecAdmission == InitAdmission /\ [][NextAdmission]_vars

\* The pauser: update() calls with trigger frames that pass the gates, the
\* remote door locked and unlocked by the classification results, and the
\* local lock set and released by hand.  Nothing takes items from the mailbox
\* and the follow-up tasks stay in their first sleep.
NextPauser ==
    \/ \E frame \in Frames :
           /\ UpdateCall("left", frame, ReedResponse("error", 0), MaxFrames)
           /\ call' = Call("left", frame, ReedResponse("error", 0))
           /\ UNCHANGED completed
    \/ CaptureAdmit
    \/ \E response \in Responses : RemotePrey(response)
    \/ \E status \in {"ok", "non200"}, green_response \in {"ok", "non200"} :
           RemoteNoPrey(status, green_response)
    \/ ~is_locked /\ lock_catflap("ok")
    \/ is_locked /\ unlock_catflap

InitPauser == InitSerial /\ prey_detection_enabled

SpecPauser == InitPauser /\ [][NextPauser]_vars

\* The remote door: locks after prey and no-prey unlocks in any order, every
\* answer of the door, and the follow-up tasks running in between.
NextRemote ==
    \/ \E response \in Responses : RemotePrey(response)
    \/ \E status \in Responses, green_response \in Responses :
           RemoteNoPrey(status, green_response)
    \/ \E t \in 1..MaxCalls :
           \/ FollowUpWake(t)
           \/ FollowUpRetry(t)
           \/ FollowUpSleep5(t)
           \/ FollowUpCancelled(t)
           \/ \E response \in Responses :
                  \/ FollowUpStatus(t, response)
                  \/ FollowUpGreen(t, response)
                  \/ FollowUpYellow(t, response)
                  \/ \E reed_status \in ReedStates : FollowUpReed(t, response, reed_status)

SpecRemote == InitDefault /\ [][NextRemote]_vars

\* The detection tracker alone: frames with no, one or two detections of two
\* classes, with confidences that rise, fall and repeat, at two places, the
\* frames following each other quickly, exactly a window apart, or later.
TrackerDetections ==
    {Detect_Object(0, 1, 0), Detect_Object(0, 2, 0), Detect_Object(0, 2, 8),
     Detect_Object(0, 1, 4), Detect_Object(1, 1, 8)}

TrackerDetectionLists ==
    {<<>>}
    \cup {<<d>> : d \in TrackerDetections}
    \cup {<<Detect_Object(0, 1, 0), Detect_Object(0, 2, 0)>>,
          <<Detect_Object(0, 2, 0), Detect_Object(0, 2, 8)>>}

Elapsed == {detection_time_window, detection_time_window + 1}

\* The tracker with the configured overlap threshold and with a stricter one.
InitTracker ==
    /\ Init
    /\ allowed_positions = allowed_trigger_positions
    /\ max_concurrent = 1
    /\ prey_detection_enabled

NextTracker ==
    \E detections \in TrackerDetectionLists, elapsed \in Elapsed :
        TrackerUpdate(detections, elapsed)

SpecTracker == InitTracker /\ [][NextTracker]_vars

\* The classifier call alone: detect_prey on no image and on images taken at
\* every position, with every answer of the endpoint, of the door and of the
\* file system; each call is a task that runs to its end.
ClassifierItems ==
    {NoImage} \cup {EncodeCropped(frame, position) : frame \in Frames, position \in Positions}

\* What one attempt of make_request comes to: {"detected": false}, {"detected":
\* true}, an aiohttp.ClientError (raise_for_status included), another exception.
AttemptOutcomes == {"clean", "prey", "client_error", "other_error"}

\* @retry(stop=stop_after_attempt(3), ...)
stop_after_attempt == 3

\* make_request under its retry decorator: an attempt that ends in a
\* ClientError is repeated at once until stop_after_attempt attempts were
\* made, then the error is re-raised; any other exception is raised at once.
RECURSIVE make_request_attempt(_, _)
make_request_attempt(outcomes, n) ==
    IF outcomes[n] \in {"clean", "prey"}
    THEN [api |-> outcomes[n], attempts |-> n]
    ELSE IF outcomes[n] = "client_error" /\ n < stop_after_attempt
    THEN make_request_attempt(outcomes, n + 1)
    ELSE [api |-> "fail", attempts |-> n]
make_request(outcomes) == make_request_attempt(outcomes, 1)

\* One detect_prey(item) call: `outcomes` is what each attempt of the HTTP
\* request would come to.
Classify(item, outcomes, lock_response, persisted) ==
    /\ door_calls < MaxCalls
    /\ door_calls' = door_calls + 1
    /\ call' = [item |-> item, outcomes |-> outcomes,
                attempts |-> IF item = NoImage THEN 0
                             ELSE make_request(outcomes).attempts,
                persisted |-> persisted]
    /\ LET r == detect_prey(item, make_request(outcomes).api, lock_response,
                            persisted, door)
       IN  /\ tasks' = <<[NewTask(item) EXCEPT !.st = "done", !.locked = TRUE,
                                               !.result = r.result]>>
           /\ door' = r.door
           /\ door_requests' = r.requests
    /\ UNCHANGED <<queue, sharedVars, captureVars, consumer_pc, semaphore, dequeued,
                   procVars, negative_batches, max_concurrent, prey_detection_enabled,
                   allowed_positions, completed, controllerVars, trackerVars,
                   auto_lock_task, auto_lock_tasks, status_response>>

\* The attempts tried: up to three ClientErrors in a row, followed by each
\* other outcome; the fourth entry is what a fourth attempt would come to.
ClientErrors(n) == [i \in 1..n |-> "client_error"]
AttemptSequences ==
    {Append(ClientErrors(n), last) :
         n \in 0..stop_after_attempt, last \in AttemptOutcomes \ {"client_error"}}
    \cup {ClientErrors(stop_after_attempt)}

NextClassifier ==
    \E item \in {NoImage, EncodeCropped(1, "left"), EncodeCropped(2, "middle")},
       outcomes \in AttemptSequences, lock_response \in Responses,
       persisted \in BOOLEAN :
        Classify(item, outcomes, lock_response, persisted)

InitClassifier == InitSerial /\ prey_detection_enabled

SpecClassifier == InitClassifier /\ [][NextClassifier]_vars

\* The controller alone: lock and unlock commands in any order, a lock that
\* may fail, and the auto-unlock timers.
NextController ==
    \/ \E outcome \in LockOutcomes : lock_catflap(outcome)
    \/ unlock_catflap
    \/ \E t \in 1..MaxCalls :
           AutoUnlockElapse(t) \/ AutoUnlockRun(t) \/ AutoUnlockCancelled(t)

SpecController == InitDefault /\ [][NextController]_vars

\* The event loop keeps running: a sleep that is over is noticed, and a task
\* that can run does run.
SpecControllerFair ==
    /\ SpecController
    /\ WF_vars(\E t \in 1..MaxCalls : AutoUnlockElapse(t))
    /\ WF_vars(\E t \in 1..MaxCalls : AutoUnlockRun(t))
    /\ WF_vars(\E t \in 1..MaxCalls : AutoUnlockCancelled(t))

\* ====================================================================
\* Properties
\* ====================================================================

\* A batch holds a positive result.
HasPositive(results) == \E i \in DOMAIN results : results[i].is_positive

\* A task whose acquire timed out: it ran coroutine(None).
Declined(task) == task.st = "done" /\ ~task.locked

\* The steps of process_detection_results after both unlock checks passed.
UnlockPath == {"unlock_reset", "unlock_call", "unlock_image", "unlock_notify",
               "unlock_clear"}

\* process_detection_results takes a step.
ProcStep == proc_pc' # proc_pc

\* C1: at no point are more than max_concurrent classifier invocations that
\* carry a non-null item in flight.
C1_ConcurrencyBound == Cardinality(InFlight) <= max_concurrent

\* The limit is reached and a further task of the same lifetime was declined.
C1_Witness ==
    /\ Cardinality(InFlight) = max_concurrent
    /\ \E i \in DOMAIN tasks : Declined(tasks[i])

\* C2: the list handed to on_batch has exactly one result per non-sentinel
\* item dequeued in that lifetime, in task order; a declined item's result is
\* the negative result of classify(None).
C2_OneResultPerItem ==
    /\ \A i \in DOMAIN tasks :
           Declined(tasks[i]) => tasks[i].result = DetectionResult_negative
    /\ proc_pc = "start" =>
           /\ Len(all_results) = dequeued
           /\ Len(tasks) = dequeued
           /\ \A i \in DOMAIN tasks : all_results[i] = tasks[i].result

\* A batch of two results is handed over, one from a declined item and one
\* from a classified item.
C2_Witness ==
    /\ proc_pc = "start"
    /\ dequeued = 2
    /\ Len(all_results) = 2
    /\ \E i \in DOMAIN tasks : Declined(tasks[i])
    /\ \E i \in DOMAIN tasks : tasks[i].locked

\* C3 (as claimed): with the mailbox at capacity the capture thread's
\* admission does not block: whenever update is at the put, the put returns.
C3_AdmissionNeverBlocks == update_pc = "put" => sync_q_put_returns

\* C4 (as claimed): the no-prey unlock is called only in a state where at
\* least two no-positive non-empty batches were processed since the last
\* reset and at least two distinct positions are recorded.
C4_UnlockOnlyAfterBothChecks ==
    proc_pc = "unlock_call" =>
        /\ negative_batches >= REQUIRED_NEGATIVE_ONLY_BATCHES
        /\ Cardinality(EPISODE_TRIGGER_POSITIONS) >= REQUIRED_DISTINCT_POSITIONS

\* C5: a batch with at least one positive result never calls the no-prey
\* unlock, whatever the counter and the recorded positions are.
C5_PositiveBatchNeverUnlocks ==
    (HasPositive(all_results) \/ decision = "positive") =>
        (unlock_calls = 0 /\ proc_pc \notin UnlockPath /\ decision # "unlock")

\* A positive batch is processed while one more negative batch and the two
\* recorded positions would have been enough for the unlock.
C5_Witness ==
    /\ decision = "positive"
    /\ proc_pc = "positive_clear_positions"
    /\ unlock_calls = 0
    /\ Len(all_results) = 2
    /\ ~all_results[1].is_positive
    /\ Cardinality(EPISODE_TRIGGER_POSITIONS) >= REQUIRED_DISTINCT_POSITIONS

\* C6 (as claimed): the counter is 0 when the processing of a positive batch
\* returns and when an update suppressed by the recent-exit gate returns.
C6_CounterZeroAfterReset ==
    [][(\/ proc_pc = "positive_notify" /\ proc_pc' = "idle"
        \/ update_pc = "gate_first_middle" /\ update_pc' = "idle")
       => CONSECUTIVE_NEGATIVE_ONLY_BATCHES' = 0]_vars

\* C7: a negative batch that meets the counter check with fewer than two
\* recorded positions returns without resetting the counter, without touching
\* the positions, without the unlock and without a notification; the counter
\* keeps what the batch added to it.
C7_TooFewPositionsOnlyCounts ==
    /\ [](decision = "too_few_positions" =>
              unlock_calls = 0 /\ notifications = <<>>)
    /\ [][(/\ proc_pc = "negative_check_positions"
           /\ ProcStep
           /\ Cardinality(EPISODE_TRIGGER_POSITIONS) < REQUIRED_DISTINCT_POSITIONS)
          => /\ proc_pc' = "idle"
             /\ decision' = "too_few_positions"
             /\ UNCHANGED <<CONSECUTIVE_NEGATIVE_ONLY_BATCHES,
                            EPISODE_TRIGGER_POSITIONS, door>>
             /\ unlock_calls' = 0
             /\ notifications' = <<>>]_vars

\* A third negative batch at one position has grown the counter to three.
C7_Witness ==
    /\ decision = "too_few_positions"
    /\ proc_pc = "idle"
    /\ CONSECUTIVE_NEGATIVE_ONLY_BATCHES = 3
    /\ Cardinality(EPISODE_TRIGGER_POSITIONS) = 1
    /\ unlock_calls = 0

\* C8: processing an empty batch leaves the counter, the positions, the first
\* middle image and the last enqueued image as they are, and calls neither the
\* unlock nor a notification.
C8_EmptyBatchChangesNothing ==
    /\ [](decision = "empty" => unlock_calls = 0 /\ notifications = <<>>)
    /\ [][(proc_pc = "start" /\ ProcStep /\ all_results = <<>>)
          => /\ proc_pc' = "idle"
             /\ decision' = "empty"
             /\ UNCHANGED <<sharedVars, door>>
             /\ unlock_calls' = 0
             /\ notifications' = <<>>]_vars

\* An empty batch was processed in the middle of an episode.
C8_Witness ==
    /\ decision = "empty"
    /\ proc_pc = "idle"
    /\ CONSECUTIVE_NEGATIVE_ONLY_BATCHES >= 1
    /\ EPISODE_TRIGGER_POSITIONS # {}
    /\ LAST_ENQUEUED_IMAGE_BYTES # NoImage

\* C9: a negative batch that passes both checks calls the unlock exactly once
\* and returns with the counter at 0 and no recorded positions; a batch that
\* starts from a counter of 0 never gets to the unlock.
C9_UnlockOnceThenReset ==
    /\ [](unlock_calls <= 1)
    /\ [](proc_pc \in UnlockPath =>
              loaded_count >= REQUIRED_NEGATIVE_ONLY_BATCHES - 1)
    /\ [][(proc_pc = "unlock_clear" /\ ProcStep)
          => /\ proc_pc' = "idle"
             /\ unlock_calls' = 1
             /\ CONSECUTIVE_NEGATIVE_ONLY_BATCHES' = 0
             /\ EPISODE_TRIGGER_POSITIONS' = {}]_vars

\* The unlock path has returned.
C9_Witness ==
    /\ decision = "unlock"
    /\ proc_pc = "idle"
    /\ unlock_calls = 1
    /\ CONSECUTIVE_NEGATIVE_ONLY_BATCHES = 0
    /\ EPISODE_TRIGGER_POSITIONS = {}

\* C10 (as claimed): an unlock notification is sent only when the no-prey
\* unlock succeeded, that is when the door was set to GREEN.
C10_NotificationOnlyOnSuccess ==
    \A k \in DOMAIN notifications :
        notifications[k].kind = "unlock" =>
            notifications[k].text = "door unlocked - will auto-lock"

\* The status texts handle_no_prey_detection returns.
UnlockStatusTexts ==
    {"door unlocked - will auto-lock", "Door remains LOCKED",
     "door API returned status", "Timeout contacting door API",
     "Could not unlock door"}

\* C10 (amended): every call of the no-prey unlock returns a status text,
\* and once the unlock path is past its notification exactly one unlock
\* notification carrying that text was sent, whether or not the door was
\* set to GREEN.
C10_NotificationOnEveryStatus ==
    /\ decision = "unlock" => unlock_message \in UnlockStatusTexts
    /\ (decision = "unlock" /\ proc_pc \in {"unlock_clear", "idle"}) =>
           /\ Len(notifications) = 1
           /\ notifications[1].kind = "unlock"
           /\ notifications[1].text = unlock_message

\* The unlock found the door RED, left it RED, and the notification went out.
C10_Witness ==
    /\ decision = "unlock"
    /\ proc_pc = "idle"
    /\ door = "RED"
    /\ Len(notifications) = 1
    /\ notifications[1].text = "Door remains LOCKED"

\* The _auto_unlock tasks that can still call unlock_catflap: neither
\* finished nor asked to cancel.
LiveUnlockTasks ==
    {t \in DOMAIN auto_unlock_tasks : auto_unlock_tasks[t] \in {"sleeping", "elapsed"}}

\* A lock_catflap / unlock_catflap call is made in this step.
LockCall ==
    controller_calls' # controller_calls /\ controller_result'.call = "lock_catflap"
UnlockCall ==
    controller_calls' # controller_calls /\ controller_result'.call = "unlock_catflap"

\* C15: lock_catflap called while locked returns False and leaves is_locked,
\* lock_start_time, the handle and the timers as they are.
C15_LockWhileLockedChangesNothing ==
    [][(LockCall /\ is_locked)
       => /\ controller_result'.returned = "False"
          /\ UNCHANGED <<is_locked, lock_start_time, unlock_task, auto_unlock_tasks>>]_vars

\* A second lock was refused and the one timer of the first lock still sleeps.
C15_Witness ==
    /\ controller_result = Returned("lock_catflap", "False")
    /\ is_locked
    /\ controller_calls = 2
    /\ auto_unlock_tasks = <<"sleeping">>
    /\ unlock_task = 1

\* C16: unlock_catflap called while locked returns True, clears is_locked and
\* lock_start_time, cancels the timer the handle named and sets the handle to
\* None; called while not locked it returns False and changes nothing.
C16_UnlockClearsOrRefuses ==
    [][UnlockCall
       => IF is_locked
          THEN /\ controller_result'.returned = "True"
               /\ ~is_locked'
               /\ lock_start_time' = None
               /\ unlock_task' = NoTask
               /\ unlock_task # NoTask
               /\ auto_unlock_tasks'[unlock_task] \in {"cancelling", "finished"}
          ELSE /\ controller_result'.returned = "False"
               /\ UNCHANGED <<is_locked, lock_start_time, unlock_task,
                              auto_unlock_tasks>>]_vars

\* A manual unlock ended a lock and its timer is cancelled.
C16_Witness ==
    /\ controller_result = Returned("unlock_catflap", "True")
    /\ ~is_locked
    /\ unlock_task = NoTask
    /\ auto_unlock_tasks = <<"cancelling">>

\* C17 (as claimed): in every reachable state is_locked holds iff
\* lock_start_time is set iff the handle of the auto-unlock task is set.
C17_LockStateConsistent ==
    /\ is_locked <=> lock_start_time # None
    /\ is_locked <=> unlock_task # NoTask

\* C18: at most one auto-unlock task is neither finished nor cancelled.
C18_OneLiveUnlockTask == Cardinality(LiveUnlockTasks) <= 1

\* A re-lock right after an unlock: the old timer is cancelled but not yet
\* finished, the new one sleeps.
C18_Witness ==
    /\ Len(auto_unlock_tasks) = 2
    /\ auto_unlock_tasks[1] = "cancelling"
    /\ auto_unlock_tasks[2] = "sleeping"
    /\ is_locked

\* C19: once locked, the controller gets back to is_locked = False with the
\* handle None, by the timer if by nothing else.
C19_LockedLeadsToUnlocked == is_locked ~> (~is_locked /\ unlock_task = NoTask)

\* The only call was a successful lock, and the timer has unlocked the flap.
C19_Witness ==
    /\ controller_calls = 1
    /\ controller_result = Returned("lock_catflap", "True")
    /\ ~is_locked
    /\ unlock_task = NoTask
    /\ auto_unlock_tasks = <<"finished">>

\* The steps of update() between passing the last gate and returning.
AdmitPath == {"admit_positions", "admit_last_enqueued", "admit_first_middle", "put"}
GatePath == {"gate_counter", "gate_positions", "gate_first_middle"}

\* An update() call is made in this step / passes every filter in this step.
UpdateStep == frames' # frames
Admitted == UpdateStep /\ update_pc' = "admit_positions"

\* The bytes update() encodes for the call c.
CallBytes(c) == EncodeCropped(c.frame, c.position)

\* The second half of C11: a call whose reed probe fails (request error, no
\* timestamp in the answer) is not suppressed by the recent-exit gate, and
\* the episode state is not reset.
C11_FailedProbeNotSuppressed ==
    [][(/\ UpdateStep
        /\ call'.position # None
        /\ call'.reed.kind \in {"error", "no_timestamp"}
        /\ ~is_locked
        /\ prey_detection_enabled)
       => /\ update_pc' \notin GatePath
          /\ UNCHANGED <<CONSECUTIVE_NEGATIVE_ONLY_BATCHES, EPISODE_TRIGGER_POSITIONS,
                         FIRST_MIDDLE_IMAGE_BYTES>>
          /\ last_trigger_position' = call'.position]_vars

\* C11 (as claimed): an update() the recent-exit gate suppresses enqueues
\* nothing and returns with the episode state reset: counter 0, positions
\* empty, first-middle image and last_trigger_position cleared; an update()
\* whose probe fails is not suppressed and resets nothing.
C11_RecentExitGate ==
    /\ [][(update_pc \in GatePath => UNCHANGED queue \/ Len(queue') < Len(queue))
          /\ ((update_pc = "gate_first_middle" /\ update_pc' = "idle")
              => /\ EPISODE_TRIGGER_POSITIONS' = {}
                 /\ FIRST_MIDDLE_IMAGE_BYTES' = NoImage
                 /\ last_trigger_position' = None
                 /\ CONSECUTIVE_NEGATIVE_ONLY_BATCHES' = 0)]_vars
    /\ C11_FailedProbeNotSuppressed

\* The gates of update() for the call c, on the state the call finds.
GatesHold(c, position_allowed) ==
    /\ ~is_locked
    /\ prey_detection_enabled
    /\ c.position # None
    /\ ~should_skip_detection_recent_exit(c.reed)
    /\ position_allowed
    /\ ~(previous_image # 0 /\ ssim(previous_image, c.frame) > ssim_threshold)

\* The mailbox, the positions and the last enqueued image are written only
\* by a call that passed the gates, with that call's position and bytes.
OnlyAdmittedCallsWrite ==
    /\ (update_pc' \in AdmitPath /\ update_pc \notin AdmitPath) => Admitted
    /\ queue' # queue
           => update_pc = "put" /\ queue' = Append(queue, CallBytes(call))
    /\ (EPISODE_TRIGGER_POSITIONS' # EPISODE_TRIGGER_POSITIONS
        /\ EPISODE_TRIGGER_POSITIONS' # {})
           => /\ update_pc = "admit_positions"
              /\ EPISODE_TRIGGER_POSITIONS' = EPISODE_TRIGGER_POSITIONS \cup {call.position}
    /\ LAST_ENQUEUED_IMAGE_BYTES' # LAST_ENQUEUED_IMAGE_BYTES
           => /\ update_pc = "admit_last_enqueued"
              /\ LAST_ENQUEUED_IMAGE_BYTES' = CallBytes(call)

\* C12 (as claimed): a frame reaches the mailbox, the positions and the last
\* enqueued image only if the flap is not locked, prey detection is enabled,
\* the position is non-null, the recent-exit gate is false, the position is
\* in the allowed set and the frame is no SSIM near-duplicate.
C12_AdmittedOnlyInAllowedSet ==
    [][/\ OnlyAdmittedCallsWrite
       /\ Admitted => GatesHold(call', call'.position \in allowed_positions)]_vars

\* C12 (amended): as claimed, except that an empty allowed set switches the
\* position filter off: the position is in the allowed set, or the set is
\* empty.
C12_AdmittedOnlyThroughEveryGate ==
    [][/\ OnlyAdmittedCallsWrite
       /\ Admitted => GatesHold(call', \/ allowed_positions = {}
                                       \/ call'.position \in allowed_positions)]_vars

\* A frame at "right" is on the mailbox although the allowed set is empty.
C12_Witness ==
    /\ allowed_positions = {}
    /\ Len(queue) >= 1
    /\ queue[1].crop = "right"
    /\ "right" \in EPISODE_TRIGGER_POSITIONS
    /\ LAST_ENQUEUED_IMAGE_BYTES = queue[Len(queue)]

\* The reference frame is replaced by the frame of a call exactly when the
\* call passes the gates.
ReferenceFollowsAdmission ==
    IF Admitted THEN previous_image' = call'.frame ELSE UNCHANGED previous_image

\* C13 (as claimed): two consecutively admitted frames have an SSIM below
\* the threshold, and the reference frame is replaced exactly on admission.
C13_ConsecutiveFramesBelowThreshold ==
    /\ [](\A i \in 1..(Len(queue) - 1) :
              ssim(queue[i].frame, queue[i + 1].frame) < ssim_threshold)
    /\ [][ReferenceFollowsAdmission]_vars

\* C13 (amended): two consecutively admitted frames have an SSIM of at most
\* the threshold (a frame is skipped only above it), and the reference frame
\* is replaced exactly on admission.
C13_ConsecutiveFramesAtMostThreshold ==
    /\ [](\A i \in 1..(Len(queue) - 1) :
              ssim(queue[i].frame, queue[i + 1].frame) <= ssim_threshold)
    /\ [][ReferenceFollowsAdmission]_vars

\* Two frames admitted one after the other whose SSIM is the threshold.
C13_Witness ==
    /\ Len(queue) = 2
    /\ ssim(queue[1].frame, queue[2].frame) = ssim_threshold
    /\ previous_image = queue[2].frame

\* An episode reset clears the positions in this step: the recent-exit gate
\* (line 268), a positive batch (line 131) or the end of an unlock (line 217).
PositionsResetStep ==
    \/ update_pc = "gate_positions" /\ update_pc' # update_pc
    \/ proc_pc = "positive_clear_positions" /\ proc_pc' # proc_pc
    \/ proc_pc = "unlock_clear" /\ proc_pc' # proc_pc

\* C14: between resets EPISODE_TRIGGER_POSITIONS only grows, and a reset
\* leaves it empty in one step, whatever the other thread is doing: nothing
\* added before the reset survives it, and the set never shrinks otherwise.
C14_PositionsGrowUntilReset ==
    [][IF PositionsResetStep
       THEN EPISODE_TRIGGER_POSITIONS' = {}
       ELSE EPISODE_TRIGGER_POSITIONS \subseteq EPISODE_TRIGGER_POSITIONS']_vars

\* A positive batch has just cleared the positions while an admission is
\* under way on the capture thread: the position it added is gone.
C14_Witness ==
    /\ update_pc = "admit_last_enqueued"
    /\ proc_pc = "positive_clear_first_middle"
    /\ EPISODE_TRIGGER_POSITIONS = {}
    /\ update_args.position # None

\* C20: when the answer to the no-prey unlock's GET /status is a 200 that
\* contains RED, the unlock sends nothing but that request (no /mode/green),
\* creates no follow-up task and cancels none, leaves the door as it is and
\* returns the text that the door remains locked.
C20_RedStatusKeepsDoorLocked ==
    [][(/\ door_calls' # door_calls
        /\ door_requests'[1] = "/status"
        /\ status_response' = StatusResponse("ok", "RED"))
       => /\ door_requests' = <<"/status">>
          /\ UNCHANGED <<auto_lock_task, auto_lock_tasks, door>>
          /\ unlock_message' = "Door remains LOCKED"]_vars

\* A no-prey unlock found the door RED while the follow-up task of an earlier
\* unlock is still waiting: the door is still RED and the task untouched.
C20_Witness ==
    /\ status_response = StatusResponse("ok", "RED")
    /\ door_requests = <<"/status">>
    /\ unlock_message = "Door remains LOCKED"
    /\ door = "RED"
    /\ auto_lock_task = 1
    /\ auto_lock_tasks = <<FollowUp("sleep_120", 0)>>

\* The follow-up tasks that can still send requests: neither finished nor
\* asked to cancel.
PendingFollowUps ==
    {t \in DOMAIN auto_lock_tasks : auto_lock_tasks[t].pc \notin {"finished", "cancelling"}}

\* A remote lock (handle_prey_detection) / a no-prey unlock is made in this step.
RemoteLockStep == door_calls' # door_calls /\ door_requests'[1] = "/mode/red"
RemoteUnlockStep == door_calls' # door_calls /\ door_requests'[1] = "/status"

\* The mode commands among the requests of the latest step.
ModeCommands(requests) ==
    {i \in DOMAIN requests : requests[i] \in {"/mode/green", "/mode/yellow"}}

\* C21 (as claimed): a remote lock and a no-prey unlock each cancel the
\* follow-up task that is in flight, so that after a lock no follow-up task
\* is pending, after an unlock none but the one it has just created, and at
\* most one is pending at any time.
C21_FollowUpCancelledByLockAndUnlock ==
    /\ [](Cardinality(PendingFollowUps) <= 1)
    /\ [][/\ RemoteLockStep => PendingFollowUps' = {}
          /\ RemoteUnlockStep =>
                 PendingFollowUps' \subseteq (DOMAIN auto_lock_tasks' \ DOMAIN auto_lock_tasks)]_vars

\* C22 (as claimed): while the door is RED no step of the program sends
\* /mode/green or /mode/yellow, and the door stays RED.
C22_RedUntilManualUnlock ==
    [][door = "RED" => /\ ModeCommands(door_requests') = {}
                       /\ door' = "RED"]_vars

\* The largest confidence among the detections h, and the position of the
\* latest detection that has it.
MaxConfidence(h) == CHOOSE m \in {h[i].prob : i \in DOMAIN h} :
                        \A i \in DOMAIN h : h[i].prob <= m
LatestBest(h) == CHOOSE i \in DOMAIN h :
                     /\ h[i].prob = MaxConfidence(h)
                     /\ \A j \in DOMAIN h : j > i => h[j].prob < MaxConfidence(h)

\* The detections matched so far to the tracked object.
History(tracked) == matched[tracked.key[2] + 1]

\* C23: best_confidence of a tracked object never decreases, it is the
\* largest confidence of the detections matched to the object, and
\* best_image is the image of the latest detection with that confidence.
C23_BestConfidenceIsRunningMax ==
    /\ [](\A i \in DOMAIN tracked_objects :
              LET tracked == tracked_objects[i]
                  h == History(tracked)
              IN  /\ Len(h) = tracked.detection_count
                  /\ tracked.best_confidence = MaxConfidence(h)
                  /\ tracked.best_image = h[LatestBest(h)].image)
    /\ [][\A i \in DOMAIN tracked_objects, j \in DOMAIN tracked_objects' :
              tracked_objects[i].key = tracked_objects'[j].key
                  => tracked_objects'[j].best_confidence
                         >= tracked_objects[i].best_confidence]_vars

\* An object matched three times, with confidences 2, 1, 2: its best image
\* is that of the third frame.
C23_Witness ==
    \E i \in DOMAIN tracked_objects :
        /\ Len(History(tracked_objects[i])) = 3
        /\ History(tracked_objects[i])[1].prob = 2
        /\ History(tracked_objects[i])[2].prob = 1
        /\ History(tracked_objects[i])[3].prob = 2
        /\ tracked_objects[i].best_image.frame = 3
        /\ tracked_objects[i].best_confidence = 2

\* Every task of the lifetime has completed.
AllTasksDone == \A i \in DOMAIN tasks : tasks[i].st = "done"

\* C24: in every consumer lifetime on_batch (result_processor) starts only
\* after the receive loop has ended and every task created in the lifetime
\* has completed, with one result per task; no task runs while it runs; it
\* is not started a second time; and the lifetime ends only by its return.
C24_OnBatchOnceAfterAllTasks ==
    /\ [](consumer_pc = "proc" => AllTasksDone /\ proc_pc # "idle")
    /\ [][/\ (proc_pc = "idle" /\ proc_pc' # "idle")
              => /\ consumer_pc = "join"
                 /\ AllTasksDone
                 /\ Len(all_results') = Len(tasks)
          /\ consumer_pc = "proc" => consumer_pc' \in {"proc", "idle"}
          /\ (consumer_pc # "idle" /\ consumer_pc' = "idle")
              => consumer_pc = "proc" /\ proc_pc # "idle"]_vars

\* on_batch has just been started with the results of two tasks, one of
\* which was declined a permit, while the next frame waits on the mailbox.
C24_Witness ==
    /\ consumer_pc = "proc"
    /\ proc_pc = "start"
    /\ Len(all_results) = 2
    /\ \E i \in DOMAIN tasks : Declined(tasks[i])
    /\ queue # <<>>

\* The texts handle_prey_detection returns.
LockStatusTexts ==
    {handle_prey_detection("GREEN", response).message : response \in Responses}

\* C25: a classifier call that returns a positive result has sent
\* GET /mode/red before it returned, whatever the door answered; the result
\* carries the detection message with the lock status and the image given to
\* the call.
C25_PositiveResultAfterLockCommand ==
    \A i \in DOMAIN tasks :
        (tasks[i].st = "done" /\ tasks[i].result.is_positive)
            => /\ door_requests = <<"/mode/red">>
               /\ tasks[i].item # NoImage
               /\ tasks[i].result.image_bytes = tasks[i].item
               /\ \E text \in LockStatusTexts :
                      tasks[i].result.message = "CAT WITH PREY DETECTED / " \o text

\* A positive result whose lock command timed out: the command was sent, the
\* door did not turn RED, and the result says so.
C25_Witness ==
    /\ Len(tasks) = 1
    /\ tasks[1].result.is_positive
    /\ tasks[1].result.message = "CAT WITH PREY DETECTED / Timeout contacting door API"
    /\ tasks[1].result.image_bytes = EncodeCropped(2, "middle")
    /\ door_requests = <<"/mode/red">>
    /\ door = "GREEN"


\* The positive results of a batch.
PositiveResults(results) == {i \in DOMAIN results : results[i].is_positive}

\* process_detection_results returns.
ProcReturns == proc_pc # "idle" /\ proc_pc' = "idle"

CaptureThreadStep == UpdateStep \/ update_pc' # update_pc

\* C27: the negative-batch counter, the positions seen, the last enqueued
\* image and the first middle image are written on the main event loop
\* only: no step of the capture thread changes any of them.
C27_EpisodeStateWrittenOnMainLoopOnly ==
    [][CaptureThreadStep => UNCHANGED sharedVars]_vars


\* The consumer leaves the TaskGroup block and starts on_batch.
BatchCollected == consumer_pc = "join" /\ consumer_pc' = "proc"

\* C28 as stated: the batch lists the results in the order in which the
\* tasks completed.
C28_ResultsInCompletionOrder ==
    [][BatchCollected
           => all_results' = [k \in DOMAIN tasks |->
                                 tasks[CompletionOrder(tasks)[k]].result]]_vars

\* C28: the batch lists the results in the order in which the tasks were
\* created, which is the order in which their items left the mailbox,
\* whatever the order in which the tasks completed: a task is created for
\* the head of the mailbox behind the tasks there are, it keeps its place
\* for the lifetime, and the i-th result is the result of the i-th task.
C28_ResultsInDequeueOrder ==
    [][/\ BatchCollected
           => all_results' = [i \in DOMAIN tasks |-> tasks[i].result]
       /\ tasks' # <<>>
           => \A i \in DOMAIN tasks :
                  i \in DOMAIN tasks' /\ tasks'[i].item = tasks[i].item
       /\ Len(tasks') > Len(tasks)
           => /\ queue # <<>>
              /\ tasks' = Append(tasks, NewTask(Head(queue)))]_vars

\* on_batch starts with two results: the second task completed first, with
\* an error result, and the first task then reported prey; the positive
\* result comes first all the same.
C28_Witness ==
    /\ consumer_pc = "proc"
    /\ proc_pc = "start"
    /\ Len(tasks) = 2
    /\ CompletionOrder(tasks) = <<2, 1>>
    /\ all_results[1].is_positive
    /\ all_results[1].image_bytes = tasks[1].item
    /\ ~all_results[2].is_positive
    /\ all_results[2].image_bytes = tasks[2].item


\* Every reordering of a batch.
Reorderings(results) ==
    {[i \in DOMAIN results |-> results[f[i]]] : f \in Permutations(DOMAIN results)}

\* What a call of process_detection_results has left behind.
Left ==
    Outcome(CONSECUTIVE_NEGATIVE_ONLY_BATCHES, EPISODE_TRIGGER_POSITIONS, decision,
            unlock_calls)

\* C29: the decision engine is commutative in the batch: a call of
\* process_detection_results leaves the counter and the positions, and takes
\* the positive / unlock / no-unlock branch, as it would for every
\* reordering of its batch.
C29_DecisionCommutesWithReordering ==
    [][ProcReturns
           => /\ Left' = process_detection_results(call.results, call.counter,
                                                   call.positions)
              /\ \A reordered \in Reorderings(call.results) :
                     process_detection_results(reordered, call.counter,
                                               call.positions) = Left']_vars

\* A batch of three different results whose only positive result comes
\* last has been answered as a positive batch.
C29_Witness ==
    /\ proc_pc = "idle"
    /\ decision = "positive"
    /\ Len(call.results) = 3
    /\ ~call.results[1].is_positive
    /\ call.results[1] # call.results[2]
    /\ ~call.results[2].is_positive
    /\ call.results[3].is_positive
    /\ call.counter = 1
    /\ CONSECUTIVE_NEGATIVE_ONLY_BATCHES = 0


\* The positive result that comes first in the batch.
FirstPositive(results) ==
    results[CHOOSE i \in PositiveResults(results) :
                \A j \in PositiveResults(results) : i <= j]

\* C30: a batch with at least one positive result sends exactly one
\* notification, with the message and the image of the positive result that
\* comes first in the batch, leaves the positions seen and the first middle
\* image cleared, and at no step calls the actuator: no unlock call, no door
\* request, the door as it was.
C30_PositiveBatchNotifiesFirstPositiveOnly ==
    [][/\ (ProcReturns /\ PositiveResults(call.results) # {})
           => /\ notifications' =
                     <<Notification("positive",
                                    FirstPositive(call.results).message, {},
                                    FirstPositive(call.results).image_bytes)>>
              /\ EPISODE_TRIGGER_POSITIONS' = {}
              /\ FIRST_MIDDLE_IMAGE_BYTES' = NoImage
              /\ unlock_calls' = 0
       /\ (ProcStep /\ PositiveResults(all_results) # {})
           => /\ unlock_calls' = 0
              /\ UNCHANGED <<door, door_requests, door_calls, unlock_message>>]_vars

\* A batch of a negative result followed by two different positive results,
\* met with two positions seen and a first middle image, has been answered:
\* the one notification is the one of the second result, and the positions
\* and the first middle image are gone.
C30_Witness ==
    /\ proc_pc = "idle"
    /\ decision = "positive"
    /\ Len(call.results) = 3
    /\ ~call.results[1].is_positive
    /\ call.results[2].is_positive
    /\ call.results[3].is_positive
    /\ call.results[2] # call.results[3]
    /\ Cardinality(call.positions) = 2
    /\ call.first_middle # NoImage
    /\ Len(notifications) = 1
    /\ notifications[1].image_bytes = call.results[2].image_bytes
    /\ EPISODE_TRIGGER_POSITIONS = {}
    /\ FIRST_MIDDLE_IMAGE_BYTES = NoImage


\* DetectionTracker.update is called in this step.
TrackerUpdateStep == timestamp' # timestamp

Keys(objects) == {objects[i].key : i \in DOMAIN objects}

\* The tracked objects not seen for longer than the window at the time of
\* the update made in this step.
Overdue ==
    {i \in DOMAIN tracked_objects :
         timestamp' - tracked_objects[i].last_seen > detection_time_window}

\* C31: update() expires first.  The objects it returns are exactly those
\* not seen for strictly longer than the window, an object last seen exactly
\* a window ago included among the kept; a returned object has left the
\* dict, no detection of this update was matched to it, and it cannot come
\* back, since whatever enters the dict enters under an id that no object
\* has had.
C31_ExpiredFirstAndOnce ==
    /\ [](\A i \in DOMAIN tracked_objects : tracked_objects[i].key[2] < next_id)
    /\ [](\A k \in DOMAIN expired : expired[k].key[2] < next_id)
    /\ [][TrackerUpdateStep
             => /\ Len(expired') = Cardinality(Overdue)
                /\ \A i \in Overdue :
                       /\ \E k \in DOMAIN expired' :
                              /\ expired'[k].key = tracked_objects[i].key
                              /\ expired'[k].label = tracked_objects[i].label
                              /\ expired'[k].best_confidence
                                     = tracked_objects[i].best_confidence
                              /\ expired'[k].best_image = tracked_objects[i].best_image
                       /\ tracked_objects[i].key \notin Keys(tracked_objects')
                       /\ matched'[tracked_objects[i].key[2] + 1]
                              = matched[tracked_objects[i].key[2] + 1]
                /\ \A i \in DOMAIN tracked_objects \ Overdue :
                       tracked_objects[i].key \in Keys(tracked_objects')
                /\ \A j \in DOMAIN tracked_objects' :
                       \/ tracked_objects'[j].key \in Keys(tracked_objects)
                       \/ tracked_objects'[j].key[2] >= next_id
                /\ next_id' >= next_id]_vars

\* The first cat track was not seen for two windows and is returned; a
\* track of the other class, last seen exactly a window ago, is kept; the cat
\* detection of this update, which overlaps anything of its class under the
\* configured threshold, has become a new track.
C31_Witness ==
    /\ iou_threshold = detection_iou_threshold
    /\ Len(expired) = 1
    /\ expired[1].key = object_key(0, 0)
    /\ Len(matched[1]) = 1
    /\ call.detections = <<Detect_Object(0, 1, 0)>>
    /\ Len(tracked_objects) = 2
    /\ tracked_objects[1].key = object_key(1, 1)
    /\ timestamp - tracked_objects[1].last_seen = detection_time_window
    /\ tracked_objects[2].key = object_key(0, 2)
    /\ tracked_objects[2].first_seen = timestamp


\* What C32 speaks of: per tracked object, in insertion order, its key, the
\* detection it was last matched with and how many it was matched with.
Shape(objects) ==
    [i \in DOMAIN objects |->
        [key |-> objects[i].key, last_detection |-> objects[i].last_detection,
         detection_count |-> objects[i].detection_count]]

\* The tracked objects after one detection: the earliest inserted object of
\* the detection's class that overlaps it enough takes it; with no such
\* object a new one is appended under the class and the next id.
Placed(state, detection) ==
    LET fits == {i \in DOMAIN state.shape :
                     /\ state.shape[i].key[1] = detection.label
                     /\ calculate_iou(state.shape[i].last_detection, detection)
                            >= iou_threshold}
        earliest == CHOOSE i \in fits : \A j \in fits : i <= j
    IN  IF fits # {}
        THEN [state EXCEPT !.shape[earliest].last_detection = detection,
                           !.shape[earliest].detection_count = @ + 1]
        ELSE [shape |-> Append(state.shape,
                               [key |-> object_key(detection.label, state.next),
                                last_detection |-> detection,
                                detection_count |-> 1]),
              next |-> state.next + 1]

\* C32: each detection of an update, in turn, updates the first tracked
\* object in insertion order of its class that it overlaps by at least the
\* threshold, or else becomes a new object under its class and the next id;
\* no two tracked objects share a key, and a key once given out is not given
\* out again, expired objects' keys included.
C32_FirstMatchInInsertionOrder ==
    /\ [](\A i, j \in DOMAIN tracked_objects :
              tracked_objects[i].key = tracked_objects[j].key => i = j)
    /\ [](\A i \in DOMAIN tracked_objects :
              /\ tracked_objects[i].key[1] = tracked_objects[i].label
              /\ tracked_objects[i].key[2] < next_id)
    /\ [][TrackerUpdateStep
             => LET recent(tracked) == tracked.key \notin Keys(expired')
                    detections == call'.detections
                    start == [shape |-> Shape(SelectSeq(tracked_objects, recent)),
                              next |-> next_id]
                    first == IF Len(detections) >= 1
                             THEN Placed(start, detections[1]) ELSE start
                    second == IF Len(detections) >= 2
                              THEN Placed(first, detections[2]) ELSE first
                IN  /\ Len(detections) <= 2
                    /\ Shape(tracked_objects') = second.shape
                    /\ next_id' = second.next
                    /\ \A j \in DOMAIN tracked_objects' :
                           tracked_objects'[j].key \notin Keys(tracked_objects)
                               => tracked_objects'[j].key[2] >= next_id]_vars

\* Under the stricter threshold two cat tracks that do not overlap each
\* other are tracked; a detection that overlaps both has gone to the one
\* inserted first, and no new key was given out.
C32_Witness ==
    /\ iou_threshold = 40
    /\ Len(tracked_objects) = 2
    /\ call.detections = <<Detect_Object(0, 1, 4)>>
    /\ tracked_objects[1].key = object_key(0, 0)
    /\ tracked_objects[1].last_detection = Detect_Object(0, 1, 4)
    /\ tracked_objects[1].detection_count = 2
    /\ tracked_objects[2].key = object_key(0, 1)
    /\ tracked_objects[2].last_detection = Detect_Object(0, 2, 8)
    /\ calculate_iou(Detect_Object(0, 1, 4), Detect_Object(0, 2, 8)) >= iou_threshold
    /\ next_id = 2


\* C33: the position passed to update() is the bucket of the first detection
\* of the trigger class in the detector's output order, and None exactly
\* when no detection has the trigger class.
C33_PositionOfFirstTriggerDetection ==
    [][(UpdateStep /\ call' # call /\ call'.detections # <<>>)
           => call'.position = trigger_object_position_first(call'.detections)]_vars


\* The latest classifier call made the HTTP request `n` times.
RetriedOnlyAfterClientErrors ==
    \A n \in 1..(call.attempts - 1) : call.outcomes[n] = "client_error"

\* The latest classifier call ended in an error: every attempt failed or
\* something else went wrong.
EndedInError ==
    \/ make_request(call.outcomes).api = "fail"
    \/ make_request(call.outcomes).api = "prey" /\ ~call.persisted

\* C34: a classifier call with an image makes the HTTP request at most 3
\* times and repeats it only after a transient network error; when it ends
\* in an error its result is an error result, not positive and with a
\* message, and no lock command was sent to the door.
C34_ErrorResultWithoutLock ==
    (door_calls > 0 /\ call.item # NoImage)
        => /\ call.attempts \in 1..3
           /\ RetriedOnlyAfterClientErrors
           /\ EndedInError
                  => /\ ~tasks[1].result.is_positive
                     /\ tasks[1].result.message # None
                     /\ door_requests = <<>>


\* What a task declined a permit returns, coroutine(None), and what a call
\* whose request failed returns for the image.
OverflowResult == detect_prey(NoImage, "prey", "ok", TRUE, "GREEN").result
ErrorResult(image_bytes) == detect_prey(image_bytes, "fail", "ok", TRUE, "GREEN").result

\* A batch that is not empty and holds nothing but such results.
NothingClassified(results) ==
    /\ results # <<>>
    /\ \A i \in DOMAIN results :
           \/ results[i] = OverflowResult
           \/ /\ results[i].image_bytes # NoImage
              /\ results[i] = ErrorResult(results[i].image_bytes)

\* C35: error results and the results of declined tasks count like negative
\* results.  A batch of nothing else is answered as the batch of as many
\* negative results is: the counter goes up by one, and when that makes two
\* batches with two positions seen the no-prey unlock is called, the counter
\* returning to 0.
C35_ErrorsAndOverflowsCountAsNegatives ==
    [][(ProcReturns /\ NothingClassified(call.results))
           => /\ Left' = process_detection_results(
                             [i \in DOMAIN call.results |-> DetectionResult_negative],
                             call.counter, call.positions)
              /\ IF /\ call.counter + 1 >= REQUIRED_NEGATIVE_ONLY_BATCHES
                    /\ Cardinality(call.positions) >= REQUIRED_DISTINCT_POSITIONS
                 THEN /\ decision' = "unlock"
                      /\ unlock_calls' = 1
                      /\ CONSECUTIVE_NEGATIVE_ONLY_BATCHES' = 0
                 ELSE /\ decision' \in {"wait", "too_few_positions"}
                      /\ unlock_calls' = 0
                      /\ CONSECUTIVE_NEGATIVE_ONLY_BATCHES' = call.counter + 1]_vars

\* The second batch in a row of an error result and a declined task's
\* result, with two positions seen, has ended in the no-prey unlock.
C35_Witness ==
    /\ proc_pc = "idle"
    /\ decision = "unlock"
    /\ unlock_calls = 1
    /\ call.results = <<ErrorResult(EncodeCropped(2, "middle")), OverflowResult>>
    /\ call.counter = 1
    /\ call.positions = {"left", "middle"}
    /\ CONSECUTIVE_NEGATIVE_ONLY_BATCHES = 0


\* ------------------------------------------------------------------
\* C36: a follow-up task that is not cancelled and whose status probe did not
\* read RED ends with /mode/yellow as its last mode command.

\* The step in which the follow-up task t ends.
FollowUpEnds(t) ==
    /\ auto_lock_tasks[t].pc # "finished"
    /\ auto_lock_tasks'[t].pc = "finished"

\* The task t ends at its status probe of a RED door.
ProbeOfRedDoor(t) == auto_lock_tasks[t].pc = "status" /\ door = "RED"

\* C36: whenever a follow-up task ends that was not cancelled and whose status
\* probe did not meet a RED door, the step that ends it is its GET
\* /mode/yellow: the task's last mode command is /mode/yellow.
C36_FollowUpEndsWithYellow ==
    [][\A t \in DOMAIN auto_lock_tasks :
          (/\ FollowUpEnds(t)
           /\ auto_lock_tasks[t].pc # "cancelling"
           /\ ~ProbeOfRedDoor(t))
          => /\ auto_lock_tasks[t].pc = "yellow"
             /\ door_requests' = <<"/mode/yellow">>]_vars


\* ------------------------------------------------------------------
\* C37: the mailbox has a single consumer.

\* A step of update() from its entry (SpecConsumer calls it with a trigger
\* frame at "left" and no recent exit).
UpdateEntered == frames' = frames + 1

\* The trigger frames of SpecConsumer pass the pauser, the enabled flag and
\* the allowed-position filter.
PassesGates ==
    /\ ~is_locked
    /\ prey_detection_enabled
    /\ ~position_filtered("left")

\* C37: update() starts a consumer only when none exists or the previous one
\* has returned, on_batch call included: while a consumer is alive an
\* update() call leaves the consumer, its tasks and its semaphore untouched,
\* and on_batch runs only as the last stage of the one consumer; with no
\* consumer alive, a trigger frame that passes the gates starts a new one
\* with an empty batch.
C37_SingleConsumer ==
    /\ [](proc_pc # "idle" => consumer_pc = "proc")
    /\ [](consumer_pc = "proc" => proc_pc # "idle")
    /\ [][UpdateEntered =>
             IF consumer_pc # "idle" THEN UNCHANGED consumerVars
             ELSE IF PassesGates
             THEN consumer_pc' = "recv" /\ tasks' = <<>> /\ semaphore' = max_concurrent
             ELSE UNCHANGED consumerVars]_vars

\* A consumer has returned from a negative batch and a later trigger frame
\* has started the next one.
C37_Witness ==
    /\ negative_batches >= 1
    /\ consumer_pc = "recv"
    /\ tasks = <<>>


\* ------------------------------------------------------------------
\* C38: every item put on the mailbox is eventually dequeued.

\* C38: with the main loop running, an item that was put on the mailbox is
\* eventually dequeued, whether or not another trigger frame arrives: a
\* mailbox that holds an item is empty again later.
C38_EveryItemIsDequeued == (queue # <<>>) ~> (queue = <<>>)


\* ------------------------------------------------------------------
\* C39: a timer of an earlier lock never unlocks a later lock.

\* The timer t resumes after its sleep and its unlock_catflap call unlocks.
TimerUnlocks(t) ==
    /\ auto_unlock_tasks[t] = "elapsed"
    /\ auto_unlock_tasks'[t] = "finished"
    /\ is_locked
    /\ ~is_locked'

\* C39: in every interleaving of lock, manual unlock, re-lock and timer
\* expiry, the flap is unlocked by a timer only when that timer is the one
\* the current lock created (the one unlock_task names); and a timer that
\* can still run to its unlock is always the one unlock_task names.
C39_TimerUnlocksItsOwnLockOnly ==
    /\ [][\A t \in DOMAIN auto_unlock_tasks : TimerUnlocks(t) => t = unlock_task]_vars
    /\ [](\A t \in DOMAIN auto_unlock_tasks :
              auto_unlock_tasks[t] \in {"sleeping", "elapsed"} => t = unlock_task)

\* Lock, manual unlock and re-lock were called, both timers have finished
\* and the second lock was unlocked by its timer.
C39_Witness ==
    /\ controller_calls = 3
    /\ controller_result = Returned("lock_catflap", "True")
    /\ Len(auto_unlock_tasks) = 2
    /\ \A t \in DOMAIN auto_unlock_tasks : auto_unlock_tasks[t] = "finished"
    /\ ~is_locked


\* ------------------------------------------------------------------
\* C40: the remote-mode actions leave the local LockState alone.

\* A step of handle_prey_detection or handle_no_prey_detection.
RemoteModeStep == door_calls' # door_calls

=============================================================================
